---------------------------- MODULE Spec2Model ----------------------------
(***************************************************************************)
(* The dual-mode persistence layer and the marketplace approval workflow   *)
(* of the Nirvaha backend.                                                 *)
(*                                                                         *)
(*   api/index.js  (src/unnamed/part_000)  serverless app: auth routes     *)
(*   server.js     (src/unnamed/part_001)  full app: auth, marketplace,    *)
(*                 catalog, companion applications, analytics, sockets     *)
(*                                                                         *)
(* A handler branch on the in-process store (localDB) has no await and is  *)
(* one action.  A handler branch on MongoDB is suspended at every await:   *)
(* it occupies a slot of `calls`, and each of its actions is one database  *)
(* operation together with the synchronous continuation that follows it.   *)
(* Record fields no property reads (userId, updatedAt) are left out of the *)
(* marketplace records; of the six profile fields, which the code treats   *)
(* alike, the records keep two (mobile, address).                          *)
(***************************************************************************)
EXTENDS Integers, Sequences, FiniteSets

\* ------------------------------------------------------------------ bounds
MaxIds == 3        \* uuidv4() values handed to marketplace records
MaxUsers == 3      \* uuidv4() values handed to user records
MaxCalls == 2      \* handlers suspended at an await at the same time
MaxNow == 2        \* clock readings
TicksPerDay == 3   \* clock ticks in a calendar day
DaysPerMonth == 4  \* calendar days in a month
MaxSockets == 2    \* socket ids handed to connections

\* --------------------------------------------------------------- constants
NullDate == 0      \* approvedAt / completedAt: { type: Date, default: null }
NotANumber == -1  \* a duration for which typeof duration !== "number"
NullBy == "null"   \* approvedBy / completedBy: { type: String, default: null }
AdminEmail == "admin@nirvaha.com"
AdminPassword == "N1rv@h@Adm!n#2025@Secure"
AdminName == "Nirvaha Administrator"
AdminProfile == [mobile |-> "+1-ADMIN-001", address |-> "Nirvaha Headquarters"]
\* The name and the password every register call of the model carries.
RegisterName == "Ann"
RegisterPassword == "secret1"

Slots == 1..MaxCalls
SocketIds == 1..MaxSockets
UserIds == 1..MaxUsers
RequestTypeEnum == {"session", "retreat", "product"}

\* Inputs of the handlers.  "" is a missing (falsy) body field.
TypeInputs == {"", "retreat", "yoga"}
DataInputs == {"", "price120"}
ByInputs == {"", "bob"}
StatusInputs == {"", "active", "completed"}
EmailInputs == {"", "Ann@x.io", "ann@x.io", "Admin@Nirvaha.com"}

\* String.prototype.toLowerCase on the e-mail addresses of the model.
toLowerCase(s) ==
  CASE s = "Ann@x.io" -> "ann@x.io"
    [] s = "Admin@Nirvaha.com" -> "admin@nirvaha.com"
    [] OTHER -> s

\* `x || dflt` on a string body field.
OrDefault(x, dflt) == IF x = "" THEN dflt ELSE x

VARIABLES
  deployment,      \* "api": part_000; "vercel": part_001 with VERCEL=1;
                   \* "listen": part_001 behind server.listen
  zone,            \* the server's time zone: local time minus UTC, in ticks
  sockets,         \* the ids of the Socket.IO connections that are open
  connectedClients,\* the Map of registrations, by socket id
  initPc,          \* position of the startup chain
  mongoConnected,  \* the mode flag
  localDB,         \* the in-process store
  mongo,           \* the MongoDB collections
  calls,           \* handlers suspended at an await, one per slot
  now,             \* the clock
  nextId,          \* next uuidv4() for a marketplace record
  nextUserId,      \* next uuidv4() for a user record
  resp,            \* the response sent by the last step, if it sent one
  ioThrows,        \* the event names on which io.emit throws
  dbRejects,       \* the model operations MongoDB rejects (a lost connection)
  idCap,           \* how many marketplace ids uuidv4() hands out
  hist             \* what the callers have been told so far

\* The ids a caller may name.
Ids == 1..idCap

vars == <<deployment, dbRejects, zone, sockets, connectedClients, initPc, mongoConnected, localDB, mongo, calls,
          now, nextId, nextUserId, resp, ioThrows, idCap, hist>>

\* ----------------------------------------------------------------- helpers
RECURSIVE SelectSeqIdx(_, _, _)
\* Array.prototype.findIndex: the first index whose element has id `id`, or 0.
SelectSeqIdx(s, id, i) ==
  IF i > Len(s) THEN 0
  ELSE IF s[i].id = id THEN i ELSE SelectSeqIdx(s, id, i + 1)

findIndex(s, id) == SelectSeqIdx(s, id, 1)

\* Array.prototype.unshift
unshift(s, x) == <<x>> \o s

\* splice(i) without its count: removes every element from i on.
C22_Mutant_splice(s, i) == SubSeq(s, 1, i - 1)

\* Array.prototype.splice(i, 1)
splice(s, i) == SubSeq(s, 1, i - 1) \o SubSeq(s, i + 1, Len(s))

Range(s) == {s[i] : i \in DOMAIN s}

\* An idle slot.  A suspended handler keeps its parameters (id, by, arg), the
\* time it read (at), the documents it holds (doc), the record its first
\* query matched (before) and whether it has written to MongoDB (wrote).
NoCall ==
  [kind |-> "idle", pc |-> "idle", id |-> 0, by |-> "", at |-> 0,
   arg |-> "", doc |-> <<>>, before |-> <<>>, wrote |-> FALSE]

\* No response.  A response has the route (kind), the store that served it
\* (mode), the :id parameter, the HTTP status, the body field the call
\* carried (arg), the JSON body (body); and, for the properties, the record
\* the call matched as it was before the call (before), whether the call
\* changed a store (changed), the id of the record it created (made), the
\* time it stamped (at), the events it published (events), whether an
\* io.emit of it threw (threw) and the query string it carried (query).
NoResp ==
  [kind |-> "none", mode |-> "none", id |-> 0, status |-> 0, arg |-> "",
   before |-> <<>>, body |-> <<>>, changed |-> FALSE, made |-> 0, at |-> 0,
   events |-> <<>>, threw |-> FALSE, query |-> ""]


\* -------------------------------------------------------------------- Init
InitStore(deployments, faults, cap, zones, rejects) ==
  /\ deployment \in deployments
  /\ dbRejects \in rejects
  /\ zone \in zones
  /\ sockets = {}
  /\ connectedClients = [s \in SocketIds |-> <<>>]
  /\ ioThrows \in faults
  /\ idCap = cap
  /\ initPc = "connect"
  /\ mongoConnected = FALSE
  /\ localDB = [users |-> <<>>, marketplaceRequests |-> <<>>,
                marketplaceItems |-> <<>>, meditations |-> <<>>,
                sounds |-> <<>>]
  /\ mongo = [users |-> <<>>, requests |-> <<>>, items |-> <<>>,
              meditations |-> <<>>, sounds |-> <<>>, applications |-> <<>>]
  /\ calls = [c \in Slots |-> NoCall]
  /\ now = 1
  /\ nextId = 1
  /\ nextUserId = 1
  /\ resp = NoResp
  /\ hist = [modes |-> {}, approveOk |-> [i \in 1..cap |-> 0],
             completed |-> {}, submitted |-> {}, reseeded |-> FALSE,
             creates |-> {}, deleted |-> {},
             registered |-> [s \in SocketIds |-> <<>>]]

\* A start next to a MongoDB that rejects no operation.
InitAll(deployments, faults, cap, zones) ==
  InitStore(deployments, faults, cap, zones, {{}})

\* A start on a server whose local time is UTC.
InitCap(deployments, faults, cap) == InitAll(deployments, faults, cap, {0})

InitIo(deployments, faults) == InitCap(deployments, faults, MaxIds)

\* A start with a notifier that publishes every event.
InitWith(deployments) == InitIo(deployments, {{}})

Init == InitWith({"api", "vercel", "listen"})

\* The handlers are reachable as soon as the module is loaded, except behind
\* server.listen, which startServer calls after the startup chain.
RequestsOpen == deployment # "listen" \/ initPc = "done"

\* The marketplace routes exist in part_001 only.
MarketOpen == RequestsOpen /\ deployment # "api"

\* The step after initLocalAdminUser: seedMongo exists in part_001 only.
AfterLocalAdmin == IF deployment = "api" THEN "done" ELSE "seedFind"

\* A read of the clock may find that time has passed.
Tick ==
  /\ now < MaxNow
  /\ now' = now + 1
  /\ resp' = NoResp
  /\ UNCHANGED <<deployment, dbRejects, zone, sockets, connectedClients, ioThrows, idCap, initPc, mongoConnected, localDB, mongo, calls,
                 nextId, nextUserId, hist>>

\* ----------------------------------------------------------------- startup
\* connectMongo: mongoose.connect resolves, or rejects / MONGODB_URI is unset.
connectMongo ==
  /\ initPc = "connect"
  /\ \E ok \in BOOLEAN : mongoConnected' = ok
  /\ initPc' = "adminFind"
  /\ resp' = NoResp
  /\ UNCHANGED <<deployment, dbRejects, zone, sockets, connectedClients, ioThrows, idCap, localDB, mongo, calls, now, nextId, nextUserId,
                 hist>>

\* localDB.users.find((u) => u.email === email)
LocalUserExists(users, email) == \E i \in DOMAIN users : users[i].email = email

\* User.findOne({ email })
MongoUserExists(users, email) == \E i \in DOMAIN users : users[i].email = email

\* userSchema: email { unique: true }: a save of a second record with the
\* same email is rejected by the index.
MongoUserSaveOk(users, email) == ~MongoUserExists(users, email)

\* bcrypt.hash: a string that is not the password.
bcryptHash(password) == "$2b$" \o password

\* bcrypt.compare
bcryptCompare(password, hash) == hash = bcryptHash(password)

\* Bodies of PUT /api/auth/user/:id: a missing name is "", a missing profile
\* is <<>>, and a supplied profile carries some of the profile fields.
UserBodies ==
  {[name |-> "", profile |-> <<>>],
   [name |-> "Zed", profile |-> <<>>],
   [name |-> "", profile |-> <<[mobile |-> "555"]>>],
   [name |-> "Zed", profile |-> <<[address |-> "12 Elm"]>>]}

\* The fields of `profile` in userSchema, each { type: String, default: "" }.
ProfileFields == {"mobile", "address"}
DefaultProfile == [f \in ProfileFields |-> ""]

\* `{ ...old, ...patch }`: the fields of the patch over those of the old
\* profile; spreading a missing profile (<<>>) adds nothing.
MergedProfile(old, profile) ==
  IF profile = <<>> THEN old
  ELSE [f \in DOMAIN old \cup DOMAIN profile[1] |->
          IF f \in DOMAIN profile[1] THEN profile[1][f] ELSE old[f]]

\* `$set: { profile }`: the nested object is stored as supplied, and a field
\* it does not carry reads back as the schema's default; a missing profile
\* is left out of the update.
ReplacedProfile(old, profile) ==
  IF profile = <<>> THEN old
  ELSE [f \in ProfileFields |->
          IF f \in DOMAIN profile[1] THEN profile[1][f] ELSE DefaultProfile[f]]

\* The user record built by register (role "user") and by the seeding steps
\* (role "admin").
NewUser(email, role) ==
  [id |-> nextUserId, email |-> email, role |-> role,
   name |-> IF role = "admin" THEN AdminName ELSE RegisterName,
   password |-> bcryptHash(IF role = "admin" THEN AdminPassword
                           ELSE RegisterPassword),
   profile |-> IF role = "admin" THEN AdminProfile ELSE DefaultProfile]

\* userSchema { timestamps: true }: a save stamps the document; the records
\* of localDB.users are pushed without a createdAt.
Timestamped(u, at) ==
  [f \in DOMAIN u \cup {"createdAt"} |-> IF f = "createdAt" THEN at ELSE u[f]]

\* The `user: { id, name, email, role }` object of the register and login
\* responses.
UserView(u) == [id |-> u.id, name |-> u.name, email |-> u.email, role |-> u.role]

\* WithoutPassword deleting a key the record does not have.
C18_Mutant_WithoutPassword(u) == [f \in DOMAIN u \ {"passwordHash"} |-> u[f]]

\* `const { password, ...userData } = user` and `delete userObj.password`.
WithoutPassword(u) == [f \in DOMAIN u \ {"password"} |-> u[f]]

\* The update of PUT /api/auth/user/:id: a missing name keeps the old one.
UpdatedUser(u, name) == [u EXCEPT !.name = IF name = "" THEN @ ELSE name]

\* The record the degraded branch stores: { ...user, name: name || user.name,
\* profile: { ...user.profile, ...profile } }.
UpdatedLocalUser(u, body) ==
  [UpdatedUser(u, body.name) EXCEPT
     !.profile = MergedProfile(@, body.profile)]

\* The record findOneAndUpdate({ id }, { name, profile }, { new: true })
\* returns.
UpdatedMongoUser(u, body) ==
  [UpdatedUser(u, body.name) EXCEPT
     !.profile = ReplacedProfile(@, body.profile)]

\* initLocalAdminUserFind without the test for an administrator.
C17_Mutant_initLocalAdminUserFind ==
  /\ initPc = "adminFind"
  /\ initPc' = "adminPush"
  /\ resp' = NoResp
  /\ UNCHANGED <<deployment, dbRejects, zone, sockets, connectedClients, ioThrows, idCap, mongoConnected, localDB, mongo,
                 calls, now, nextId, nextUserId, hist>>

\* initLocalAdminUser up to `await bcrypt.hash`.
initLocalAdminUserFind ==
  /\ initPc = "adminFind"
  /\ initPc' = IF LocalUserExists(localDB.users, AdminEmail)
               THEN AfterLocalAdmin ELSE "adminPush"
  /\ resp' = NoResp
  /\ UNCHANGED <<deployment, dbRejects, zone, sockets, connectedClients, ioThrows, idCap, mongoConnected, localDB, mongo, calls, now,
                 nextId, nextUserId, hist>>

\* initLocalAdminUser after the hash: localDB.users.push(admin).
initLocalAdminUserPush ==
  /\ initPc = "adminPush"
  /\ localDB' = [localDB EXCEPT
                   !.users = Append(@, NewUser(AdminEmail, "admin"))]
  /\ nextUserId' = nextUserId + 1
  /\ initPc' = AfterLocalAdmin
  /\ resp' = NoResp
  /\ UNCHANGED <<deployment, dbRejects, zone, sockets, connectedClients, ioThrows, idCap, mongoConnected, mongo, calls, now, nextId, hist>>

\* seedMongo up to the hash: returns at once when not connected.
seedMongoFind ==
  /\ initPc = "seedFind"
  /\ initPc' = IF mongoConnected /\ ~MongoUserExists(mongo.users, AdminEmail)
               THEN "seedSave" ELSE "done"
  /\ resp' = NoResp
  /\ UNCHANGED <<deployment, dbRejects, zone, sockets, connectedClients, ioThrows, idCap, mongoConnected, localDB, mongo, calls, now,
                 nextId, nextUserId, hist>>

\* seedMongo: adminUser.save(); a rejection ends the startup chain.
seedMongoSave ==
  /\ initPc = "seedSave"
  /\ IF MongoUserSaveOk(mongo.users, AdminEmail)
     THEN /\ mongo' = [mongo EXCEPT
                         !.users = Append(@, Timestamped(
                                        NewUser(AdminEmail, "admin"), now))]
          /\ nextUserId' = nextUserId + 1
     ELSE UNCHANGED <<mongo, nextUserId>>
  /\ initPc' = "done"
  /\ resp' = NoResp
  /\ UNCHANGED <<deployment, dbRejects, zone, sockets, connectedClients, ioThrows, idCap, mongoConnected, localDB, calls, now, nextId, hist>>

\* The seeding steps called once more after the startup chain has ended.
reseed ==
  /\ initPc = "done"
  /\ initPc' = "adminFind"
  /\ hist' = [hist EXCEPT !.reseeded = TRUE]
  /\ resp' = NoResp
  /\ UNCHANGED <<deployment, dbRejects, zone, sockets, connectedClients, ioThrows, idCap, mongoConnected, localDB, mongo,
                 calls, now, nextId, nextUserId>>

Startup ==
  \/ connectMongo
  \/ initLocalAdminUserFind
  \/ initLocalAdminUserPush
  \/ seedMongoFind
  \/ seedMongoSave

\* ------------------------------------------------------- marketplace records
\* NewRequest with one id for every request.
C11_Mutant_NewRequest(id, type, data, at) ==
  [id |-> 1, type |-> type, data |-> data, status |-> "pending",
   approvedAt |-> NullDate, approvedBy |-> NullBy, createdAt |-> at]

\* The request built by POST /api/marketplace/requests.
NewRequest(id, type, data, at) ==
  [id |-> id, type |-> type, data |-> data, status |-> "pending",
   approvedAt |-> NullDate, approvedBy |-> NullBy, createdAt |-> at]

\* marketplaceRequestSchema validation run by request.save().
RequestValid(r) == r.type \in RequestTypeEnum /\ r.data # ""

\* ApprovedRequest as a toggle of the status.
C8_Mutant_ApprovedRequest(r, at, by) ==
  [r EXCEPT !.status = IF @ = "approved" THEN "pending" ELSE "approved",
            !.approvedAt = at, !.approvedBy = by]

\* ApprovedRequest without the approver.
C32_Mutant_ApprovedRequest(r, at, by) ==
  [r EXCEPT !.status = "approved", !.approvedAt = at]

\* ApprovedRequest that stamps the request and leaves its status.
C37_Mutant_ApprovedRequest(r, at, by) ==
  [r EXCEPT !.approvedAt = at, !.approvedBy = by]

\* ApprovedRequest that leaves an approved request as it is.
C38_Mutant_ApprovedRequest(r, at, by) ==
  IF r.status = "approved" THEN r
  ELSE [r EXCEPT !.status = "approved", !.approvedAt = at, !.approvedBy = by]

\* The update applied by approve: status, approvedAt, approvedBy.
ApprovedRequest(r, at, by) ==
  [r EXCEPT !.status = "approved", !.approvedAt = at, !.approvedBy = by]

\* NewItem with the item's own id written to requestId.
C1_Mutant_NewItem(id, r, at, by, created) ==
  [id |-> id, requestId |-> id, type |-> r.type, status |-> "active",
   data |-> r.data, approvedAt |-> at, approvedBy |-> by,
   completedAt |-> NullDate, completedBy |-> NullBy, createdAt |-> created]

\* The item built by approve from the approved request.
NewItem(id, r, at, by, created) ==
  [id |-> id, requestId |-> r.id, type |-> r.type, status |-> "active",
   data |-> r.data, approvedAt |-> at, approvedBy |-> by,
   completedAt |-> NullDate, completedBy |-> NullBy, createdAt |-> created]

\* ItemSaveOk with a unique index on requestId.
C2_Mutant_ItemSaveOk(items, it) ==
  /\ it.type \in RequestTypeEnum /\ it.data # ""
  /\ \A i \in DOMAIN items : items[i].requestId # it.requestId

\* item.save(): marketplaceItemSchema validation.  requestId is indexed but
\* not unique, so the items already stored do not matter.
ItemSaveOk(items, it) == it.type \in RequestTypeEnum /\ it.data # ""

\* ExistingItem looking for the request's id among the items' ids.
C3_Mutant_ExistingItem(items, rid) == \E i \in DOMAIN items : items[i].id = rid

\* The "create item only if absent" test: an item with this requestId.
ExistingItem(items, rid) == \E i \in DOMAIN items : items[i].requestId = rid

\* CompletedItem as a no-op on an item that is already completed.
C9_Mutant_CompletedItem(it, at, by) ==
  IF it.status = "completed" THEN it
  ELSE [it EXCEPT !.status = "completed", !.completedAt = at,
                  !.completedBy = by]

\* The update applied by complete: status, completedAt, completedBy.
CompletedItem(it, at, by) ==
  [it EXCEPT !.status = "completed", !.completedAt = at, !.completedBy = by]

\* FilterStatus keeping the items that do not have the status.
C16_Mutant_FilterStatus(items, status) ==
  SelectSeq(items, LAMBDA it : it.status # status)

\* items.filter((item) => item.status === status)
FilterStatus(items, status) == SelectSeq(items, LAMBDA it : it.status = status)

RECURSIVE InsertDesc(_, _)
\* Insertion of x into a sequence ordered by createdAt, newest first.
InsertDesc(s, x) ==
  IF s = <<>> THEN <<x>>
  ELSE IF x.createdAt > Head(s).createdAt THEN <<x>> \o s
       ELSE <<Head(s)>> \o InsertDesc(Tail(s), x)

RECURSIVE SortCreatedDesc(_)
\* .sort({ createdAt: -1 })
SortCreatedDesc(s) ==
  IF s = <<>> THEN <<>> ELSE InsertDesc(SortCreatedDesc(Tail(s)), Head(s))

\* ------------------------------------------------------------- bookkeeping
Busy == {c \in Slots : calls[c].pc # "idle"}

\* The slot a handler takes when it suspends.
FreeSlot == CHOOSE c \in Slots : calls[c].pc = "idle" /\
                                 \A d \in Slots : calls[d].pc = "idle" => c <= d

CanSuspend(limit) == Cardinality(Busy) < limit

Response(kind, mode, id, status, arg, before, body) ==
  [kind |-> kind, mode |-> mode, id |-> id, status |-> status, arg |-> arg,
   before |-> before, body |-> body, changed |-> FALSE, made |-> 0, at |-> 0,
   events |-> <<>>, threw |-> FALSE, query |-> ""]

\* An event handed to io.emit: its name and the id its payload carries.
Event(name, id) == [name |-> name, id |-> id]

RECURSIVE Published(_)
\* The events of a run of io.emit calls that reach the clients: those before
\* the first call that throws.
Published(evs) ==
  IF evs = <<>> \/ Head(evs).name \in ioThrows THEN <<>>
  ELSE <<Head(evs)>> \o Published(Tail(evs))

\* The handler's io.emit calls followed by its `return res.json(...)`, all
\* inside the handler's try: an emit that throws lands in the catch, which
\* answers 500 with the error message.
Emit(evs, r) ==
  IF \E i \in DOMAIN evs : evs[i].name \in ioThrows
  THEN [r EXCEPT !.status = 500, !.body = <<>>, !.events = Published(evs),
                 !.threw = TRUE]
  ELSE [r EXCEPT !.events = evs]

\* The handler has read the mode flag.
Observe(h) == [h EXCEPT !.modes = @ \cup {mongoConnected}]

\* The caller has been sent response r.
Told(h, r) ==
  CASE r.kind = "submit" /\ r.status = 201 ->
         [h EXCEPT !.submitted = @ \cup {<<r.id, r.body[1].data>>}]
    [] r.kind = "approve" /\ r.status = 200 ->
         [h EXCEPT !.approveOk[r.id] = IF @ < 2 THEN @ + 1 ELSE @]
    [] r.kind = "complete" /\ r.status = 200 ->
         [h EXCEPT !.completed = @ \cup {r.id}]
    [] r.kind = "delete" /\ r.status = 200 ->
         [h EXCEPT !.deleted = @ \cup {r.id}]
    [] OTHER -> h

Call(kind, pc, id, by, arg) ==
  [kind |-> kind, pc |-> pc, id |-> id, by |-> by, at |-> now, arg |-> arg,
   doc |-> <<>>, before |-> <<>>, wrote |-> FALSE]

\* A handler that has read the mode flag suspends at its first await.
Suspend(call) ==
  /\ calls' = [calls EXCEPT ![FreeSlot] = call]
  /\ resp' = NoResp
  /\ hist' = Observe(hist)
  /\ UNCHANGED <<deployment, dbRejects, zone, sockets, connectedClients, ioThrows, idCap, initPc, mongoConnected, localDB, mongo, now>>

\* A suspended handler goes on to its next await.
Resume(c, call) ==
  /\ calls' = [calls EXCEPT ![c] = [call EXCEPT !.wrote = @ \/ mongo' # mongo]]
  /\ resp' = NoResp
  /\ UNCHANGED <<deployment, dbRejects, zone, sockets, connectedClients, ioThrows, idCap, initPc, mongoConnected, localDB, now, hist>>

\* A suspended handler sends its response and ends.
Finish(c, r) ==
  /\ calls' = [calls EXCEPT ![c] = NoCall]
  /\ resp' = [r EXCEPT !.changed = calls[c].wrote \/ mongo' # mongo]
  /\ hist' = Told(hist, r)
  /\ UNCHANGED <<deployment, dbRejects, zone, sockets, connectedClients, ioThrows, idCap, initPc, mongoConnected, localDB, now>>

\* A handler on localDB runs to its response in one turn.
Reply(r) ==
  /\ resp' = [r EXCEPT !.changed = localDB' # localDB]
  /\ hist' = Told(Observe(hist), r)
  /\ UNCHANGED <<deployment, dbRejects, zone, sockets, connectedClients, ioThrows, idCap, initPc, mongoConnected, mongo, calls, now>>

\* -------------------------------------- POST /api/marketplace/requests
\* `if (!type || !data)`: rejected before the mode flag is read.
submitInvalid(type, data) ==
  /\ MarketOpen
  /\ type = "" \/ data = ""
  /\ resp' = Response("submit", "none", 0, 400, "", <<>>, <<>>)
  /\ UNCHANGED <<deployment, dbRejects, zone, sockets, connectedClients, ioThrows, idCap, initPc, mongoConnected, localDB, mongo, calls,
                 now, nextId, nextUserId, hist>>

submitLocal(type, data) ==
  /\ MarketOpen /\ ~mongoConnected
  /\ type # "" /\ data # ""
  /\ nextId <= idCap
  /\ nextId' = nextId + 1
  /\ UNCHANGED nextUserId
  /\ LET r == NewRequest(nextId, type, data, now) IN
       /\ localDB' = [localDB EXCEPT !.marketplaceRequests = unshift(@, r)]
       /\ Reply(Emit(<<Event("marketplace-new-request", r.id)>>,
                     [Response("submit", "local", r.id, 201, "", <<>>, <<r>>)
                        EXCEPT !.made = r.id]))

submitStart(limit, type, data) ==
  /\ MarketOpen /\ mongoConnected /\ CanSuspend(limit)
  /\ type # "" /\ data # ""
  /\ nextId <= idCap
  /\ nextId' = nextId + 1
  /\ UNCHANGED nextUserId
  /\ Suspend([Call("submit", "save", nextId, "", "") EXCEPT
                !.doc = <<NewRequest(nextId, type, data, now)>>])

\* submitSave publishing before request.save().
C15_Mutant_submitSave(c) ==
  /\ calls[c].kind = "submit" /\ calls[c].pc = "save"
  /\ UNCHANGED <<nextId, nextUserId>>
  /\ LET r == calls[c].doc[1]
         ev == <<Event("marketplace-new-request", r.id)>> IN
       IF RequestValid(r)
       THEN /\ mongo' = [mongo EXCEPT !.requests = Append(@, r)]
            /\ Finish(c, Emit(ev,
                 [Response("submit", "mongo", r.id, 201, "", <<>>, <<r>>)
                    EXCEPT !.made = r.id]))
       ELSE /\ mongo' = mongo
            /\ Finish(c, [Emit(ev, Response("submit", "mongo", r.id, 500, "",
                                            <<>>, <<>>))
                            EXCEPT !.status = 500])

\* await request.save(): a validation error is answered with 500.
submitSave(c) ==
  /\ calls[c].kind = "submit" /\ calls[c].pc = "save"
  /\ UNCHANGED <<nextId, nextUserId>>
  /\ LET r == calls[c].doc[1] IN
       IF RequestValid(r)
       THEN /\ mongo' = [mongo EXCEPT !.requests = Append(@, r)]
            /\ Finish(c, Emit(<<Event("marketplace-new-request", r.id)>>,
                 [Response("submit", "mongo", r.id, 201, "", <<>>, <<r>>)
                    EXCEPT !.made = r.id]))
       ELSE /\ mongo' = mongo
            /\ Finish(c, Response("submit", "mongo", r.id, 500, "", <<>>, <<>>))

\* ---------------------------------- GET /api/marketplace/requests/:id
getRequestLocal(id) ==
  /\ MarketOpen /\ ~mongoConnected
  /\ UNCHANGED <<localDB, nextId, nextUserId>>
  /\ LET i == findIndex(localDB.marketplaceRequests, id) IN
       IF i = 0
       THEN Reply(Response("get", "local", id, 404, "", <<>>, <<>>))
       ELSE Reply(Response("get", "local", id, 200, "",
                           <<localDB.marketplaceRequests[i]>>,
                           <<localDB.marketplaceRequests[i]>>))

getRequestStart(limit, id) ==
  /\ MarketOpen /\ mongoConnected /\ CanSuspend(limit)
  /\ UNCHANGED <<nextId, nextUserId>>
  /\ Suspend(Call("get", "find", id, "", ""))

\* await MarketplaceRequest.findOne({ id })
getRequestFind(c) ==
  /\ calls[c].kind = "get" /\ calls[c].pc = "find"
  /\ UNCHANGED <<mongo, nextId, nextUserId>>
  /\ LET id == calls[c].id
         i == findIndex(mongo.requests, id) IN
       IF i = 0
       THEN Finish(c, Response("get", "mongo", id, 404, "", <<>>, <<>>))
       ELSE Finish(c, Response("get", "mongo", id, 200, "",
                               <<mongo.requests[i]>>, <<mongo.requests[i]>>))

\* ------------------------------ PUT /api/marketplace/requests/:id/approve
\* The two events approve publishes, in the order of its io.emit calls.
ApproveEvents(id) ==
  <<Event("marketplace-request-approved", id),
    Event("marketplace-item-created", id)>>

approveLocal(id, approvedBy) ==
  /\ MarketOpen /\ ~mongoConnected
  /\ UNCHANGED nextUserId
  /\ LET i == findIndex(localDB.marketplaceRequests, id)
         by == OrDefault(approvedBy, "admin") IN
       IF i = 0
       THEN /\ UNCHANGED <<localDB, nextId>>
            /\ Reply(Response("approve", "local", id, 404, by, <<>>, <<>>))
       ELSE LET old == localDB.marketplaceRequests[i]
                r == ApprovedRequest(old, now, by)
                create == ~ExistingItem(localDB.marketplaceItems, id)
                item == NewItem(nextId, r, now, by, now) IN
              /\ create => nextId <= idCap
              /\ localDB' = [localDB EXCEPT
                   !.marketplaceRequests[i] = r,
                   !.marketplaceItems = IF create THEN unshift(@, item) ELSE @]
              /\ nextId' = IF create THEN nextId + 1 ELSE nextId
              /\ Reply(Emit(ApproveEvents(id),
                   [Response("approve", "local", id, 200, by, <<old>>, <<r>>)
                      EXCEPT !.made = IF create THEN item.id ELSE 0,
                             !.at = now]))

approveStart(limit, id, approvedBy) ==
  /\ MarketOpen /\ mongoConnected /\ CanSuspend(limit)
  /\ UNCHANGED <<nextId, nextUserId>>
  /\ Suspend(Call("approve", "update", id, OrDefault(approvedBy, "admin"), ""))

\* await MarketplaceRequest.findOneAndUpdate(...); `if (!request)` 404.
approveUpdate(c) ==
  /\ calls[c].kind = "approve" /\ calls[c].pc = "update"
  /\ UNCHANGED <<nextId, nextUserId>>
  /\ LET id == calls[c].id
         i == findIndex(mongo.requests, id) IN
       IF i = 0
       THEN /\ mongo' = mongo
            /\ Finish(c, Response("approve", "mongo", id, 404, calls[c].by,
                                  <<>>, <<>>))
       ELSE LET old == mongo.requests[i]
                r == ApprovedRequest(old, calls[c].at, calls[c].by) IN
              /\ mongo' = [mongo EXCEPT !.requests[i] = r]
              /\ Resume(c, [calls[c] EXCEPT !.pc = "findItem", !.doc = <<r>>,
                                            !.before = <<old>>])

\* await MarketplaceItem.findOne({ requestId }); the item is built when none
\* was found.
approveFindItem(c) ==
  /\ calls[c].kind = "approve" /\ calls[c].pc = "findItem"
  /\ UNCHANGED <<mongo, nextUserId>>
  /\ LET r == calls[c].doc[1] IN
       IF ExistingItem(mongo.items, r.id)
       THEN /\ nextId' = nextId
            /\ Finish(c, Emit(ApproveEvents(r.id),
                 [Response("approve", "mongo", r.id, 200, calls[c].by,
                           calls[c].before, <<r>>)
                    EXCEPT !.at = calls[c].at]))
       ELSE /\ nextId <= idCap
            /\ nextId' = nextId + 1
            /\ Resume(c, [calls[c] EXCEPT !.pc = "saveItem",
                 !.doc = <<r, NewItem(nextId, r,
                    IF r.approvedAt # NullDate THEN r.approvedAt ELSE now,
                    IF r.approvedBy # NullBy THEN r.approvedBy ELSE "admin",
                    now)>>])

\* await item.save(): a rejection, by the validation or by the store, is
\* answered with 500 by the catch; the update of the request stays.
approveSaveItem(c) ==
  /\ calls[c].kind = "approve" /\ calls[c].pc = "saveItem"
  /\ UNCHANGED <<nextId, nextUserId>>
  /\ LET r == calls[c].doc[1]
         item == calls[c].doc[2] IN
       IF ItemSaveOk(mongo.items, item) /\ "MarketplaceItem.save" \notin dbRejects
       THEN /\ mongo' = [mongo EXCEPT !.items = Append(@, item)]
            /\ Finish(c, Emit(ApproveEvents(r.id),
                 [Response("approve", "mongo", r.id, 200, calls[c].by,
                           calls[c].before, <<r>>)
                    EXCEPT !.made = item.id, !.at = calls[c].at]))
       ELSE /\ mongo' = mongo
            /\ Finish(c, Response("approve", "mongo", r.id, 500, calls[c].by,
                                  calls[c].before, <<>>))

\* ------------------------------------ DELETE /api/marketplace/requests/:id
deleteLocal(id) ==
  /\ MarketOpen /\ ~mongoConnected
  /\ UNCHANGED <<nextId, nextUserId>>
  /\ LET i == findIndex(localDB.marketplaceRequests, id) IN
       IF i = 0
       THEN /\ localDB' = localDB
            /\ Reply(Response("delete", "local", id, 404, "", <<>>, <<>>))
       ELSE /\ localDB' = [localDB EXCEPT !.marketplaceRequests = splice(@, i)]
            /\ Reply(Emit(<<Event("marketplace-request-deleted", id)>>,
                 Response("delete", "local", id, 200, "",
                          <<localDB.marketplaceRequests[i]>>, <<>>)))

deleteStart(limit, id) ==
  /\ MarketOpen /\ mongoConnected /\ CanSuspend(limit)
  /\ UNCHANGED <<nextId, nextUserId>>
  /\ Suspend(Call("delete", "delete", id, "", ""))

\* deleteExec cascading to the items of the request.
C12_Mutant_deleteExec(c) ==
  /\ calls[c].kind = "delete" /\ calls[c].pc = "delete"
  /\ UNCHANGED <<nextId, nextUserId>>
  /\ LET id == calls[c].id
         i == findIndex(mongo.requests, id) IN
       IF i = 0
       THEN /\ mongo' = mongo
            /\ Finish(c, Response("delete", "mongo", id, 404, "", <<>>, <<>>))
       ELSE /\ mongo' = [mongo EXCEPT
                   !.requests = splice(@, i),
                   !.items = SelectSeq(@, LAMBDA it : it.requestId # id)]
            /\ Finish(c, Emit(<<Event("marketplace-request-deleted", id)>>,
                 Response("delete", "mongo", id, 200, "",
                          <<mongo.requests[i]>>, <<>>)))

\* await MarketplaceRequest.findOneAndDelete({ id })
deleteExec(c) ==
  /\ calls[c].kind = "delete" /\ calls[c].pc = "delete"
  /\ UNCHANGED <<nextId, nextUserId>>
  /\ LET id == calls[c].id
         i == findIndex(mongo.requests, id) IN
       IF i = 0
       THEN /\ mongo' = mongo
            /\ Finish(c, Response("delete", "mongo", id, 404, "", <<>>, <<>>))
       ELSE /\ mongo' = [mongo EXCEPT !.requests = splice(@, i)]
            /\ Finish(c, Emit(<<Event("marketplace-request-deleted", id)>>,
                 Response("delete", "mongo", id, 200, "",
                          <<mongo.requests[i]>>, <<>>)))

\* --------------------------------------- GET /api/marketplace/items
listItemsLocal(status) ==
  /\ MarketOpen /\ ~mongoConnected
  /\ UNCHANGED <<localDB, nextId, nextUserId>>
  /\ LET st == OrDefault(status, "active") IN
       Reply([Response("list", "local", 0, 200, st, <<>>,
                       FilterStatus(localDB.marketplaceItems, st))
                EXCEPT !.query = status])

listItemsStart(limit, status) ==
  /\ MarketOpen /\ mongoConnected /\ CanSuspend(limit)
  /\ UNCHANGED <<nextId, nextUserId>>
  /\ Suspend(Call("list", "find", 0, status, OrDefault(status, "active")))

\* await MarketplaceItem.find({ status }).sort({ createdAt: -1 })
listItemsFind(c) ==
  /\ calls[c].kind = "list" /\ calls[c].pc = "find"
  /\ UNCHANGED <<mongo, nextId, nextUserId>>
  /\ Finish(c, [Response("list", "mongo", 0, 200, calls[c].arg, <<>>,
                   SortCreatedDesc(FilterStatus(mongo.items, calls[c].arg)))
                  EXCEPT !.query = calls[c].by])

\* --------------------------------- PUT /api/marketplace/items/:id/complete
\* completeLocal publishing before it writes: an emit that throws leaves the
\* item as it was.
C13_Mutant_completeLocal(id, completedBy) ==
  /\ MarketOpen /\ ~mongoConnected
  /\ UNCHANGED <<nextId, nextUserId>>
  /\ LET i == findIndex(localDB.marketplaceItems, id)
         by == OrDefault(completedBy, "admin") IN
       IF i = 0
       THEN /\ localDB' = localDB
            /\ Reply(Response("complete", "local", id, 404, by, <<>>, <<>>))
       ELSE LET old == localDB.marketplaceItems[i]
                it == CompletedItem(old, now, by) IN
              /\ localDB' = IF "marketplace-item-completed" \in ioThrows
                            THEN localDB
                            ELSE [localDB EXCEPT !.marketplaceItems[i] = it]
              /\ Reply(Emit(<<Event("marketplace-item-completed", id)>>,
                   [Response("complete", "local", id, 200, by, <<old>>,
                             <<it>>) EXCEPT !.at = now]))

completeLocal(id, completedBy) ==
  /\ MarketOpen /\ ~mongoConnected
  /\ UNCHANGED <<nextId, nextUserId>>
  /\ LET i == findIndex(localDB.marketplaceItems, id)
         by == OrDefault(completedBy, "admin") IN
       IF i = 0
       THEN /\ localDB' = localDB
            /\ Reply(Response("complete", "local", id, 404, by, <<>>, <<>>))
       ELSE LET old == localDB.marketplaceItems[i]
                it == CompletedItem(old, now, by) IN
              /\ localDB' = [localDB EXCEPT !.marketplaceItems[i] = it]
              /\ Reply(Emit(<<Event("marketplace-item-completed", id)>>,
                   [Response("complete", "local", id, 200, by, <<old>>,
                             <<it>>) EXCEPT !.at = now]))

completeStart(limit, id, completedBy) ==
  /\ MarketOpen /\ mongoConnected /\ CanSuspend(limit)
  /\ UNCHANGED <<nextId, nextUserId>>
  /\ Suspend(Call("complete", "update", id, OrDefault(completedBy, "admin"),
                  ""))

\* completeUpdate with { upsert: true }: an id that matches no item makes
\* one.
C10_Mutant_completeUpdate(c) ==
  /\ calls[c].kind = "complete" /\ calls[c].pc = "update"
  /\ UNCHANGED <<nextId, nextUserId>>
  /\ LET id == calls[c].id
         i == findIndex(mongo.items, id)
         blank == [id |-> id, requestId |-> 0, type |-> "", status |-> "active",
                   data |-> "", approvedAt |-> NullDate, approvedBy |-> NullBy,
                   completedAt |-> NullDate, completedBy |-> NullBy,
                   createdAt |-> now]
         it == CompletedItem(IF i = 0 THEN blank ELSE mongo.items[i],
                             calls[c].at, calls[c].by) IN
       /\ mongo' = IF i = 0 THEN [mongo EXCEPT !.items = Append(@, it)]
                   ELSE [mongo EXCEPT !.items[i] = it]
       /\ Finish(c, [Response("complete", "mongo", id, 200, calls[c].by,
                              IF i = 0 THEN <<>> ELSE <<mongo.items[i]>>,
                              <<it>>)
                       EXCEPT !.at = calls[c].at])

\* await MarketplaceItem.findOneAndUpdate(...); `if (!item)` 404.
completeUpdate(c) ==
  /\ calls[c].kind = "complete" /\ calls[c].pc = "update"
  /\ UNCHANGED <<nextId, nextUserId>>
  /\ LET id == calls[c].id
         i == findIndex(mongo.items, id) IN
       IF i = 0
       THEN /\ mongo' = mongo
            /\ Finish(c, Response("complete", "mongo", id, 404, calls[c].by,
                                  <<>>, <<>>))
       ELSE LET old == mongo.items[i]
                it == CompletedItem(old, calls[c].at, calls[c].by) IN
              /\ mongo' = [mongo EXCEPT !.items[i] = it]
              /\ Finish(c, Emit(<<Event("marketplace-item-completed", id)>>,
                   [Response("complete", "mongo", id, 200, calls[c].by,
                             <<old>>, <<it>>)
                      EXCEPT !.at = calls[c].at]))

\* ------------------------------------------------ POST /api/auth/register
\* `if (!name || !email || !password)`: rejected before anything is read.
registerInvalid(email) ==
  /\ RequestsOpen
  /\ email = ""
  /\ resp' = Response("register", "none", 0, 400, email, <<>>, <<>>)
  /\ UNCHANGED <<deployment, dbRejects, zone, sockets, connectedClients, ioThrows, idCap, initPc, mongoConnected, localDB, mongo, calls,
                 now, nextId, nextUserId, hist>>

\* part_000, `if (!mongoConnected)`: localDB.users.find, then
\* `await bcrypt.hash`.
registerLocalFind(limit, email) ==
  /\ RequestsOpen /\ deployment = "api" /\ ~mongoConnected
  /\ email # ""
  /\ UNCHANGED <<localDB, nextId, nextUserId>>
  /\ IF LocalUserExists(localDB.users, toLowerCase(email))
     THEN Reply(Response("register", "local", 0, 400, toLowerCase(email),
                         <<>>, <<>>))
     ELSE /\ CanSuspend(limit) /\ nextUserId <= MaxUsers
          /\ Suspend(Call("register", "push", 0, "", toLowerCase(email)))

\* part_000, after the hash: localDB.users.push(newUser).
registerLocalPush(c) ==
  /\ calls[c].kind = "register" /\ calls[c].pc = "push"
  /\ LET u == NewUser(calls[c].arg, "user") IN
       /\ localDB' = [localDB EXCEPT !.users = Append(@, u)]
       /\ calls' = [calls EXCEPT ![c] = NoCall]
       /\ resp' = [Response("register", "local", u.id, 201, u.email, <<>>,
                            <<UserView(u)>>)
                     EXCEPT !.made = u.id, !.changed = TRUE]
  /\ nextUserId' = nextUserId + 1
  /\ UNCHANGED <<deployment, dbRejects, zone, sockets, connectedClients, ioThrows, idCap, initPc, mongoConnected, mongo, now, nextId, hist>>

\* part_000 when connected, and part_001 in either mode (its handler has no
\* localDB branch): suspends on `await User.findOne`.
registerStart(limit, email) ==
  /\ RequestsOpen /\ (deployment = "api" => mongoConnected)
  /\ email # ""
  /\ CanSuspend(limit) /\ nextUserId <= MaxUsers
  /\ calls' = [calls EXCEPT
                 ![FreeSlot] = Call("register", "find", 0, "", toLowerCase(email))]
  /\ resp' = NoResp
  /\ hist' = IF deployment = "api" THEN Observe(hist) ELSE hist
  /\ UNCHANGED <<deployment, dbRejects, zone, sockets, connectedClients, ioThrows, idCap, initPc, mongoConnected, localDB, mongo, now,
                 nextId, nextUserId>>

\* await User.findOne({ email }): without a connection the operation is
\* buffered and rejected after the buffering timeout.
registerFind(c) ==
  /\ calls[c].kind = "register" /\ calls[c].pc = "find"
  /\ UNCHANGED <<mongo, nextId, nextUserId>>
  /\ IF ~mongoConnected
     THEN Finish(c, Response("register", "mongo", 0, 500, calls[c].arg, <<>>,
                             <<>>))
     ELSE IF MongoUserExists(mongo.users, calls[c].arg)
     THEN Finish(c, Response("register", "mongo", 0, 400, calls[c].arg, <<>>,
                             <<>>))
     ELSE Resume(c, [calls[c] EXCEPT !.pc = "save"])

\* await newUser.save(): the unique index rejects a second record.
registerSave(c) ==
  /\ calls[c].kind = "register" /\ calls[c].pc = "save"
  /\ UNCHANGED nextId
  /\ LET u == NewUser(calls[c].arg, "user") IN
       IF MongoUserSaveOk(mongo.users, u.email)
       THEN /\ mongo' = [mongo EXCEPT
                          !.users = Append(@, Timestamped(u, now))]
            /\ nextUserId' = nextUserId + 1
            /\ Finish(c, [Response("register", "mongo", u.id, 201, u.email,
                                   <<>>, <<UserView(u)>>)
                            EXCEPT !.made = u.id])
       ELSE /\ UNCHANGED <<mongo, nextUserId>>
            /\ Finish(c, Response("register", "mongo", 0, 500, u.email, <<>>,
                                  <<>>))

Registers(limit) ==
  \/ \E email \in EmailInputs :
       \/ registerInvalid(email)
       \/ registerLocalFind(limit, email)
       \/ registerStart(limit, email)
  \/ \E c \in Slots :
       \/ registerLocalPush(c)
       \/ registerFind(c)
       \/ registerSave(c)

\* ---------------------------------------------------- POST /api/auth/login
\* `if (!email || !password)`
loginInvalid(email, password) ==
  /\ RequestsOpen
  /\ email = "" \/ password = ""
  /\ resp' = Response("login", "none", 0, 400, "", <<>>, <<>>)
  /\ UNCHANGED <<deployment, dbRejects, zone, sockets, connectedClients, ioThrows, idCap, initPc, mongoConnected, localDB,
                 mongo, calls, now, nextId, nextUserId, hist>>

\* `if (!mongoConnected)`: localDB.users.find, then `await bcrypt.compare`
\* with the user found.
loginLocalFind(limit, email, password) ==
  /\ RequestsOpen /\ ~mongoConnected
  /\ email # "" /\ password # ""
  /\ UNCHANGED <<localDB, nextId, nextUserId>>
  /\ LET found == SelectSeq(localDB.users,
                            LAMBDA u : u.email = toLowerCase(email)) IN
       IF found = <<>>
       THEN Reply(Response("login", "local", 0, 401, "", <<>>, <<>>))
       ELSE /\ CanSuspend(limit)
            /\ Suspend([Call("login", "compare", 0, password, "local")
                          EXCEPT !.doc = <<found[1]>>])

\* Connected: suspends on `await User.findOne({ email })`.
loginStart(limit, email, password) ==
  /\ RequestsOpen /\ mongoConnected /\ CanSuspend(limit)
  /\ email # "" /\ password # ""
  /\ UNCHANGED <<nextId, nextUserId>>
  /\ Suspend(Call("login", "find", 0, password, toLowerCase(email)))

\* await User.findOne({ email }); `if (!user)` 401.
loginFind(c) ==
  /\ calls[c].kind = "login" /\ calls[c].pc = "find"
  /\ UNCHANGED <<mongo, nextId, nextUserId>>
  /\ LET found == SelectSeq(mongo.users, LAMBDA u : u.email = calls[c].arg) IN
       IF found = <<>>
       THEN Finish(c, Response("login", "mongo", 0, 401, "", <<>>, <<>>))
       ELSE Resume(c, [calls[c] EXCEPT !.pc = "compare", !.arg = "mongo",
                                       !.doc = <<found[1]>>])

\* await bcrypt.compare(password, user.password); 401, or 200 with the token
\* and the user object.
loginCompare(c) ==
  /\ calls[c].kind = "login" /\ calls[c].pc = "compare"
  /\ UNCHANGED <<mongo, nextId, nextUserId>>
  /\ LET u == calls[c].doc[1] IN
       IF bcryptCompare(calls[c].by, u.password)
       THEN Finish(c, Response("login", calls[c].arg, u.id, 200, "", <<u>>,
                               <<UserView(u)>>))
       ELSE Finish(c, Response("login", calls[c].arg, u.id, 401, "", <<>>,
                               <<>>))

\* ------------------------------------------- GET /api/auth/user/:id (part_000)
getUserLocal(id) ==
  /\ RequestsOpen /\ deployment = "api" /\ ~mongoConnected
  /\ UNCHANGED <<localDB, nextId, nextUserId>>
  /\ LET i == findIndex(localDB.users, id) IN
       IF i = 0
       THEN Reply(Response("getUser", "local", id, 404, "", <<>>, <<>>))
       ELSE Reply(Response("getUser", "local", id, 200, "",
                           <<localDB.users[i]>>,
                           <<WithoutPassword(localDB.users[i])>>))

getUserStart(limit, id) ==
  /\ RequestsOpen /\ deployment = "api" /\ mongoConnected /\ CanSuspend(limit)
  /\ UNCHANGED <<nextId, nextUserId>>
  /\ Suspend(Call("getUser", "find", id, "", ""))

\* await User.findOne({ id }); user.toObject(); delete userObj.password
getUserFind(c) ==
  /\ calls[c].kind = "getUser" /\ calls[c].pc = "find"
  /\ UNCHANGED <<mongo, nextId, nextUserId>>
  /\ LET id == calls[c].id
         i == findIndex(mongo.users, id) IN
       IF i = 0
       THEN Finish(c, Response("getUser", "mongo", id, 404, "", <<>>, <<>>))
       ELSE Finish(c, Response("getUser", "mongo", id, 200, "",
                               <<mongo.users[i]>>,
                               <<WithoutPassword(mongo.users[i])>>))

\* ------------------------------------------- PUT /api/auth/user/:id (part_000)
updateUserLocal(id, body) ==
  /\ RequestsOpen /\ deployment = "api" /\ ~mongoConnected
  /\ UNCHANGED <<nextId, nextUserId>>
  /\ LET i == findIndex(localDB.users, id) IN
       IF i = 0
       THEN /\ localDB' = localDB
            /\ Reply(Response("updateUser", "local", id, 404, body, <<>>, <<>>))
       ELSE LET u == UpdatedLocalUser(localDB.users[i], body) IN
              /\ localDB' = [localDB EXCEPT !.users[i] = u]
              /\ Reply(Response("updateUser", "local", id, 200, body,
                                <<localDB.users[i]>>, <<WithoutPassword(u)>>))

updateUserStart(limit, id, body) ==
  /\ RequestsOpen /\ deployment = "api" /\ mongoConnected /\ CanSuspend(limit)
  /\ UNCHANGED <<nextId, nextUserId>>
  /\ Suspend(Call("updateUser", "update", id, "", body))

\* await User.findOneAndUpdate({ id }, { name, profile }, { new: true })
updateUserExec(c) ==
  /\ calls[c].kind = "updateUser" /\ calls[c].pc = "update"
  /\ UNCHANGED <<nextId, nextUserId>>
  /\ LET id == calls[c].id
         i == findIndex(mongo.users, id) IN
       IF i = 0
       THEN /\ mongo' = mongo
            /\ Finish(c, Response("updateUser", "mongo", id, 404, calls[c].arg,
                                  <<>>, <<>>))
       ELSE LET u == UpdatedMongoUser(mongo.users[i], calls[c].arg) IN
              /\ mongo' = [mongo EXCEPT !.users[i] = u]
              /\ Finish(c, Response("updateUser", "mongo", id, 200,
                                    calls[c].arg, <<mongo.users[i]>>,
                                    <<WithoutPassword(u)>>))

\* The user routes, with at most `limit` handlers suspended at once.
Logins(limit, emails, passwords) ==
  \/ \E email \in emails, password \in passwords :
       \/ loginInvalid(email, password)
       \/ loginLocalFind(limit, email, password)
       \/ loginStart(limit, email, password)
  \/ \E c \in Slots : loginFind(c) \/ loginCompare(c)

GetUsers(limit) ==
  \/ \E id \in UserIds : getUserLocal(id) \/ getUserStart(limit, id)
  \/ \E c \in Slots : getUserFind(c)

UpdateUsers(limit, bodies) ==
  \/ \E id \in UserIds, body \in bodies :
       updateUserLocal(id, body) \/ updateUserStart(limit, id, body)
  \/ \E c \in Slots : updateUserExec(c)

\* ------------------------------------- /api/meditations and /api/sounds
\* The routes of the two catalogs are the same code over two models; `coll`
\* is "meditations" or "sounds".  Of the optional fields the model keeps
\* level and status, and mood for a sound.  In a body "" is a field that is
\* missing, NotANumber a duration that is missing or not a number, and
\* isArray = FALSE a mood that is missing or not an array.
Collections == {"meditations", "sounds"}

\* The document Model.create builds from the body of a POST.
CatalogDoc(coll, id, body, at) ==
  LET doc == [id |-> id, title |-> body.title, duration |-> body.duration,
              level |-> OrDefault(body.level, ""),
              status |-> OrDefault(body.status, "Draft"),
              createdAt |-> at] IN
    IF coll = "sounds"
    THEN [f \in DOMAIN doc \cup {"mood"} |->
            IF f = "mood"
            THEN IF body.mood.isArray THEN body.mood.value ELSE <<>>
            ELSE doc[f]]
    ELSE doc

\* The object the routes answer with for a document.
CatalogView(doc) ==
  [doc EXCEPT !.level = OrDefault(@, ""), !.status = OrDefault(@, "Draft")]

\* The update of a PUT: the fields the body has replace the document's.
UpdatedCatalog(doc, body) ==
  [f \in DOMAIN doc |->
     CASE f = "title" /\ body.title # "" -> body.title
       [] f = "duration" /\ body.duration # NotANumber -> body.duration
       [] f = "level" /\ body.level # "" -> body.level
       [] f = "status" /\ body.status # "" -> body.status
       [] f = "mood" /\ body.mood.isArray -> body.mood.value
       [] OTHER -> doc[f]]

\* A handler that does not read the mode flag suspends at its await.
SuspendUnobserved(call) ==
  /\ calls' = [calls EXCEPT ![FreeSlot] = call]
  /\ resp' = NoResp
  /\ UNCHANGED <<deployment, dbRejects, zone, sockets, connectedClients, ioThrows, idCap, initPc, mongoConnected, localDB,
                 mongo, now, hist>>

\* A model operation without a connection is buffered and then rejected.
\* The handlers of POST, PUT and DELETE have no try / catch, so the rejection
\* leaves the handler: the request is never answered (status 0), or the
\* framework's error handler answers 500.
Rejected(c, kind) ==
  \E status \in {0, 500} :
    Finish(c, Response(kind, "mongo", calls[c].id, status, calls[c].arg,
                       <<>>, <<>>))

\* `if (!title || typeof duration !== "number")`
catalogCreateInvalid(coll, body) ==
  /\ MarketOpen
  /\ body.title = "" \/ body.duration = NotANumber
  /\ resp' = Response("createCatalog", "none", 0, 400, coll, <<>>, <<>>)
  /\ UNCHANGED <<deployment, dbRejects, zone, sockets, connectedClients, ioThrows, idCap, initPc, mongoConnected, localDB,
                 mongo, calls, now, nextId, nextUserId, hist>>

\* POST has no branch on the mode flag: suspends on `await Model.create`.
catalogCreateStart(limit, coll, body) ==
  /\ MarketOpen /\ CanSuspend(limit)
  /\ body.title # "" /\ body.duration # NotANumber
  /\ nextId <= idCap
  /\ nextId' = nextId + 1
  /\ UNCHANGED nextUserId
  /\ SuspendUnobserved([Call("createCatalog", "create", nextId, "", coll)
                          EXCEPT !.doc = <<body>>])

\* await Model.create(...), once the connection attempt has ended.
catalogCreateExec(c) ==
  /\ calls[c].kind = "createCatalog" /\ calls[c].pc = "create"
  /\ initPc # "connect"
  /\ UNCHANGED <<nextId, nextUserId>>
  /\ LET coll == calls[c].arg
         doc == CatalogDoc(coll, calls[c].id, calls[c].doc[1], calls[c].at) IN
       IF mongoConnected
       THEN /\ mongo' = [mongo EXCEPT ![coll] = Append(@, doc)]
            /\ calls' = [calls EXCEPT ![c] = NoCall]
            /\ resp' = [Response("createCatalog", "mongo", doc.id, 201, coll,
                                 <<>>, <<CatalogView(doc)>>)
                          EXCEPT !.made = doc.id, !.changed = TRUE]
            /\ hist' = [hist EXCEPT !.creates = @ \cup
                          {[coll |-> coll, id |-> doc.id,
                            body |-> calls[c].doc[1], ok |-> TRUE]}]
            /\ UNCHANGED <<deployment, dbRejects, zone, sockets, connectedClients, ioThrows, idCap, initPc, mongoConnected,
                           localDB, now>>
       ELSE /\ mongo' = mongo
            /\ \E status \in {0, 500} :
                 resp' = Response("createCatalog", "mongo", calls[c].id, status,
                                  coll, <<>>, <<>>)
            /\ calls' = [calls EXCEPT ![c] = NoCall]
            /\ hist' = [hist EXCEPT !.creates = @ \cup
                          {[coll |-> coll, id |-> calls[c].id,
                            body |-> calls[c].doc[1], ok |-> FALSE]}]
            /\ UNCHANGED <<deployment, dbRejects, zone, sockets, connectedClients, ioThrows, idCap, initPc, mongoConnected,
                           localDB, now>>

\* PUT has no branch on the mode flag: suspends on
\* `await Model.findOneAndUpdate`.
catalogUpdateStart(limit, coll, id, body) ==
  /\ MarketOpen /\ CanSuspend(limit)
  /\ UNCHANGED <<nextId, nextUserId>>
  /\ SuspendUnobserved([Call("updateCatalog", "update", id, "", coll)
                          EXCEPT !.doc = <<body>>])

\* await Model.findOneAndUpdate(...); `if (!updated)` 404.
catalogUpdateExec(c) ==
  /\ calls[c].kind = "updateCatalog" /\ calls[c].pc = "update"
  /\ initPc # "connect"
  /\ UNCHANGED <<nextId, nextUserId>>
  /\ LET coll == calls[c].arg
         id == calls[c].id
         i == findIndex(mongo[coll], id) IN
       IF ~mongoConnected
       THEN /\ mongo' = mongo
            /\ Rejected(c, "updateCatalog")
       ELSE IF i = 0
       THEN /\ mongo' = mongo
            /\ Finish(c, Response("updateCatalog", "mongo", id, 404, coll,
                                  <<>>, <<>>))
       ELSE LET doc == UpdatedCatalog(mongo[coll][i], calls[c].doc[1]) IN
              /\ mongo' = [mongo EXCEPT ![coll][i] = doc]
              /\ Finish(c, Response("updateCatalog", "mongo", id, 200, coll,
                                    <<mongo[coll][i]>>, <<CatalogView(doc)>>))

\* DELETE has no branch on the mode flag: suspends on
\* `await Model.deleteOne`.
catalogDeleteStart(limit, coll, id) ==
  /\ MarketOpen /\ CanSuspend(limit)
  /\ UNCHANGED <<nextId, nextUserId>>
  /\ SuspendUnobserved(Call("deleteCatalog", "delete", id, "", coll))

\* await Model.deleteOne({ id }); `if (deleted.deletedCount === 0)` 404.
catalogDeleteExec(c) ==
  /\ calls[c].kind = "deleteCatalog" /\ calls[c].pc = "delete"
  /\ initPc # "connect"
  /\ UNCHANGED <<nextId, nextUserId>>
  /\ LET coll == calls[c].arg
         id == calls[c].id
         i == findIndex(mongo[coll], id) IN
       IF ~mongoConnected
       THEN /\ mongo' = mongo
            /\ Rejected(c, "deleteCatalog")
       ELSE IF i = 0
       THEN /\ mongo' = mongo
            /\ Finish(c, Response("deleteCatalog", "mongo", id, 404, coll,
                                  <<>>, <<>>))
       ELSE /\ mongo' = [mongo EXCEPT ![coll] = splice(@, i)]
            /\ Finish(c, Response("deleteCatalog", "mongo", id, 200, coll,
                                  <<mongo[coll][i]>>, <<>>))

\* GET, `if (!mongoConnected)`: the fallback collection as it is.
catalogListLocal(coll) ==
  /\ MarketOpen /\ ~mongoConnected
  /\ UNCHANGED <<localDB, nextId, nextUserId>>
  /\ Reply(Response("listCatalog", "local", 0, 200, coll, <<>>,
                    localDB[coll]))

catalogListStart(limit, coll) ==
  /\ MarketOpen /\ mongoConnected /\ CanSuspend(limit)
  /\ UNCHANGED <<nextId, nextUserId>>
  /\ Suspend(Call("listCatalog", "find", 0, "", coll))

\* await Model.find().sort({ createdAt: -1 }).lean(), mapped to the answer.
catalogListFind(c) ==
  /\ calls[c].kind = "listCatalog" /\ calls[c].pc = "find"
  /\ UNCHANGED <<mongo, nextId, nextUserId>>
  /\ LET sorted == SortCreatedDesc(mongo[calls[c].arg]) IN
       Finish(c, Response("listCatalog", "mongo", 0, 200, calls[c].arg, <<>>,
                          [i \in DOMAIN sorted |-> CatalogView(sorted[i])]))

\* The catalog routes, with at most `limit` handlers suspended at once and
\* the bodies of POST and PUT drawn from the given set.
CatalogCreates(limit, bodies) ==
  \/ \E coll \in Collections, body \in bodies :
       catalogCreateInvalid(coll, body) \/ catalogCreateStart(limit, coll, body)
  \/ \E c \in Slots : catalogCreateExec(c)

CatalogUpdates(limit, bodies) ==
  \/ \E coll \in Collections, id \in Ids, body \in bodies :
       catalogUpdateStart(limit, coll, id, body)
  \/ \E c \in Slots : catalogUpdateExec(c)

CatalogDeletes(limit) ==
  \/ \E coll \in Collections, id \in Ids : catalogDeleteStart(limit, coll, id)
  \/ \E c \in Slots : catalogDeleteExec(c)

CatalogLists(limit) ==
  \/ \E coll \in Collections :
       catalogListLocal(coll) \/ catalogListStart(limit, coll)
  \/ \E c \in Slots : catalogListFind(c)

\* ------------------------------------------------- Socket.IO connections
\* The data of a register event: an object whose role is "user", "admin" or
\* missing ("").
RegisterInputs == {[role |-> r] : r \in {"user", "admin", ""}}

\* activeSessions counting every registration, whatever its role.
C34_Mutant_activeSessions ==
  Cardinality({s \in SocketIds : connectedClients[s] # <<>>})

\* Array.from(connectedClients.values())
\*   .filter((client) => client?.role === "user").length
activeSessions ==
  Cardinality({s \in SocketIds : /\ connectedClients[s] # <<>>
                                 /\ connectedClients[s][1].role = "user"})

\* io.on("connection"): a client opens a socket; the handler installs the
\* listeners of the socket and stores nothing.
socketConnect(s) ==
  /\ MarketOpen
  /\ s \notin sockets
  /\ sockets' = sockets \cup {s}
  /\ resp' = NoResp
  /\ UNCHANGED <<deployment, dbRejects, zone, connectedClients, ioThrows, idCap, initPc,
                 mongoConnected, localDB, mongo, calls, now, nextId,
                 nextUserId, hist>>

\* socket.on("register"): connectedClients.set(socket.id, data)
socketRegister(s, data) ==
  /\ s \in sockets
  /\ connectedClients' = [connectedClients EXCEPT ![s] = <<data>>]
  /\ hist' = [hist EXCEPT !.registered[s] = <<data>>]
  /\ resp' = NoResp
  /\ UNCHANGED <<deployment, dbRejects, zone, sockets, ioThrows, idCap, initPc,
                 mongoConnected, localDB, mongo, calls, now, nextId,
                 nextUserId>>

\* socket.on("disconnect"): `if (client)` connectedClients.delete(socket.id)
socketDisconnect(s) ==
  /\ s \in sockets
  /\ sockets' = sockets \ {s}
  /\ connectedClients' =
       IF connectedClients[s] # <<>>
       THEN [connectedClients EXCEPT ![s] = <<>>]
       ELSE connectedClients
  /\ hist' = [hist EXCEPT !.registered[s] = <<>>]
  /\ resp' = NoResp
  /\ UNCHANGED <<deployment, dbRejects, zone, ioThrows, idCap, initPc, mongoConnected,
                 localDB, mongo, calls, now, nextId, nextUserId>>

\* What the clients of the notifier do.
Connections(datas) ==
  \E s \in SocketIds :
    \/ socketConnect(s)
    \/ \E data \in datas : socketRegister(s, data)
    \/ socketDisconnect(s)

\* ------------------------------------------------------- GET /api/analytics
\* Instants are clock ticks; a calendar day is TicksPerDay ticks and UTC day
\* d is the ticks d * TicksPerDay .. (d + 1) * TicksPerDay - 1.  Amounts are
\* in tenths.
RangeInputs == {"", "7d", "30d", "90d", "1y", "2w"}

parseRangeDays(range) ==
  CASE range = "30d" -> 30
    [] range = "90d" -> 90
    [] range = "1y" -> 365
    [] OTHER -> 7

\* Date.prototype.setHours(0, 0, 0, 0): the instant the local day of t began.
setHours0(t) == ((t + zone) \div TicksPerDay) * TicksPerDay - zone

\* date.toISOString().split("T")[0]: the UTC calendar day of t.
toDateKey(t) == t \div TicksPerDay

\* start.setDate(end.getDate() - (days - 1)), start and end being read from
\* the clock in the same tick: the same local time, days - 1 days earlier.
startOf(end, days) == end - (days - 1) * TicksPerDay

\* monthStartOf giving the start of a window of seven days.
C29_Mutant_monthStartOf(end) == end - 6 * TicksPerDay

\* new Date(end.getFullYear(), end.getMonth(), 1): the instant the local
\* month of `end` began.
monthStartOf(end) ==
  LET day == (end + zone) \div TicksPerDay
  IN (day - (day % DaysPerMonth)) * TicksPerDay - zone

\* The while loop of buildDateBuckets: cursor, cursor + 1 day, ... while
\* cursor <= endDate.
bucketsFrom(cursor, endDate) ==
  LET n == IF cursor > endDate THEN 0
           ELSE (endDate - cursor) \div TicksPerDay + 1
  IN [i \in 1..n |-> cursor + (i - 1) * TicksPerDay]

buildDateBuckets(start, end) == bucketsFrom(setHours0(start), setHours0(end))

\* const bucketKeys = buckets.map(toDateKey)
bucketKeysOf(start, end) ==
  LET buckets == buildDateBuckets(start, end)
  IN [i \in DOMAIN buckets |-> toDateKey(buckets[i])]

\* The reduce that counts the dates of a list by their key, read at `key`.
countsAt(dates, key) ==
  Cardinality({i \in DOMAIN dates : toDateKey(dates[i]) = key})

\* growthFrom with the count of each day instead of the running total.
C24_Mutant_growthFrom(keys, lo, hi, cumulative, dates) ==
  [i \in 1..(hi - lo + 1) |->
     [date |-> keys[lo + i - 1],
      users |-> countsAt(dates, keys[lo + i - 1])]]

RECURSIVE growthFrom(_, _, _, _, _)
\* bucketKeys.map with the running `cumulative`, over the keys lo .. hi: the
\* keys of the first half, then those of the second half with the
\* cumulative count the first half ended with.
growthFrom(keys, lo, hi, cumulative, dates) ==
  IF lo > hi THEN <<>>
  ELSE IF lo = hi
  THEN <<[date |-> keys[lo],
          users |-> cumulative + countsAt(dates, keys[lo])]>>
  ELSE LET mid == (lo + hi) \div 2
           first == growthFrom(keys, lo, mid, cumulative, dates)
       IN first \o growthFrom(keys, mid + 1, hi, first[Len(first)].users,
                              dates)

bookingsOf(keys, dates) ==
  [i \in DOMAIN keys |-> [date |-> keys[i],
                          bookings |-> countsAt(dates, keys[i])]]

\* JSON.parse of the payload texts of the model.  A field is a number
\* (finite, or not when the literal overflows), a string, or null.
Num(v) == [t |-> "number", finite |-> TRUE, v |-> v]
Str(s) == [t |-> "string", finite |-> FALSE, v |-> s]
Payload(data) ==
  CASE data = "price120" -> [price |-> Num(1200)]
    [] data = "{price:5,amount:10}" -> [price |-> Num(50), amount |-> Num(100)]
    [] data = "{amount:'7.5'}" -> [amount |-> Str(<<"7", ".", "5">>)]
    [] data = "{note:'x'}" -> [note |-> Str(<<"x">>)]
    [] data = "{}" -> <<>>
    [] data = "{price:'abc',total:3}" ->
         [price |-> Str(<<"a", "b", "c">>), total |-> Num(30)]
    [] data = "{price:null,amount:1e999,cost:' 12kg'}" ->
         [price |-> [t |-> "null", finite |-> FALSE, v |-> 0],
          amount |-> [t |-> "number", finite |-> FALSE, v |-> 0],
          cost |-> Str(<<" ", "1", "2", "k", "g">>)]
    [] OTHER -> [note |-> Str(<<>>)]

PayloadInputs ==
  {"", "price120", "{price:5,amount:10}", "{amount:'7.5'}", "{note:'x'}", "{}",
   "{price:'abc',total:3}", "{price:null,amount:1e999,cost:' 12kg'}"}

DigitValue(ch) ==
  CASE ch = "0" -> 0 [] ch = "1" -> 1 [] ch = "2" -> 2 [] ch = "3" -> 3
    [] ch = "4" -> 4 [] ch = "5" -> 5 [] ch = "6" -> 6 [] ch = "7" -> 7
    [] ch = "8" -> 8 [] ch = "9" -> 9 [] OTHER -> -1

RECURSIVE skipSpaces(_, _)
skipSpaces(s, i) ==
  IF i <= Len(s) /\ s[i] = " " THEN skipSpaces(s, i + 1) ELSE i

RECURSIVE digitsEnd(_, _)
\* The index after the run of digits of s that starts at i.
digitsEnd(s, i) ==
  IF i <= Len(s) /\ DigitValue(s[i]) >= 0 THEN digitsEnd(s, i + 1) ELSE i

RECURSIVE digitsValue(_, _, _)
\* The number written by the digits s[i] .. s[j - 1].
digitsValue(s, i, j) ==
  IF i >= j THEN 0
  ELSE digitsValue(s, i, j - 1) * 10 + DigitValue(s[j - 1])

\* Number.parseFloat on a string of at most one fractional digit: <<>> for
\* NaN, else the number read from the longest numeric prefix, in tenths.
parseFloat(s) ==
  LET a == skipSpaces(s, 1)
      b == IF a <= Len(s) /\ s[a] \in {"+", "-"} THEN a + 1 ELSE a
      c == digitsEnd(s, b)
      d == IF c <= Len(s) /\ s[c] = "." THEN digitsEnd(s, c + 1) ELSE c
      tenths == digitsValue(s, b, c) * 10
                  + (IF d > c + 1 THEN DigitValue(s[c + 1]) ELSE 0)
  IN IF c = b /\ d <= c + 1 THEN <<>>
     ELSE <<IF b > a /\ s[a] = "-" THEN 0 - tenths ELSE tenths>>

\* The candidates with amount before price.
C28_Mutant_Candidates == <<"amount", "price", "total", "cost">>

\* const candidates = [data.price, data.amount, data.total, data.cost]
Candidates == <<"price", "amount", "total", "cost">>

RECURSIVE amountFrom(_, _)
\* The for loop of getItemAmount from candidate i on.
amountFrom(data, i) ==
  IF i > Len(Candidates) THEN 0
  ELSE IF Candidates[i] \notin DOMAIN data THEN amountFrom(data, i + 1)
  ELSE LET value == data[Candidates[i]] IN
         IF value.t = "number" /\ value.finite THEN value.v
         ELSE IF value.t = "string" /\ parseFloat(value.v) # <<>>
              THEN parseFloat(value.v)[1]
         ELSE amountFrom(data, i + 1)

getItemAmount(item) == amountFrom(Payload(item.data), 1)

RECURSIVE sumAmounts(_, _)
\* items.reduce((sum, item) => sum + getItemAmount(item), 0)
sumAmounts(items, i) ==
  IF i > Len(items) THEN 0
  ELSE getItemAmount(items[i]) + sumAmounts(items, i + 1)

RECURSIVE typeIndex(_, _, _)
typeIndex(acc, type, k) ==
  IF k > Len(acc) THEN 0
  ELSE IF acc[k].type = type THEN k ELSE typeIndex(acc, type, k + 1)

RECURSIVE revenueByType(_, _, _)
\* The reduce over itemsForRange: one entry per type, in the order in which
\* the types are first met.
revenueByType(items, i, acc) ==
  IF i > Len(items) THEN acc
  ELSE LET type == OrDefault(items[i].type, "other")
           k == typeIndex(acc, type, 1)
           amount == getItemAmount(items[i])
       IN revenueByType(items, i + 1,
            IF k = 0 THEN Append(acc, [type |-> type, value |-> amount])
            ELSE [acc EXCEPT ![k].value = @ + amount])

\* type.replace(/(^|\s|_)([a-z])/g, upper).replace(/_/g, " ") on the types of
\* the model.
displayName(type) ==
  CASE type = "retreat" -> "Retreat"
    [] type = "session" -> "Session"
    [] type = "product" -> "Product"
    [] type = "yoga" -> "Yoga"
    [] type = "other" -> "Other"
    [] OTHER -> type

revenueBreakdownOf(items) ==
  LET byType == revenueByType(items, 1, <<>>)
  IN [k \in DOMAIN byType |-> [name |-> displayName(byType[k].type),
                               value |-> byType[k].value]]

\* `doc.createdAt ? new Date(doc.createdAt) : new Date()` over a list of
\* localDB; dflt is the reading of the clock that stands in.
localDates(docs, dflt) ==
  [i \in DOMAIN docs |->
     IF "createdAt" \in DOMAIN docs[i] /\ docs[i].createdAt # NullDate
     THEN docs[i].createdAt ELSE dflt]

\* dates.filter((d) => d >= lo && d <= hi)
datesWithin(dates, lo, hi) == SelectSeq(dates, LAMBDA d : d >= lo /\ d <= hi)

\* dates.filter((d) => d < start).length
datesBefore(dates, start) == Len(SelectSeq(dates, LAMBDA d : d < start))

\* new Date(item.approvedAt || item.createdAt || Date.now())
itemDate(it, dflt) ==
  IF it.approvedAt # NullDate THEN it.approvedAt
  ELSE IF it.createdAt # NullDate THEN it.createdAt ELSE dflt

localItemsWithin(items, lo, hi, dflt) ==
  SelectSeq(items, LAMBDA it : itemDate(it, dflt) >= lo
                              /\ itemDate(it, dflt) <= hi)

\* A date field of a document matches { $gte: lo, $lte: hi }; a null or
\* missing field matches no range.
DateMatches(doc, field, lo, hi) ==
  /\ field \in DOMAIN doc /\ doc[field] # NullDate
  /\ doc[field] >= lo /\ doc[field] <= hi

\* Model.find({ createdAt: { $gte: lo, $lte: hi } }, { createdAt: 1 })
mongoDatesWithin(docs, lo, hi) ==
  LET found == SelectSeq(docs, LAMBDA d : DateMatches(d, "createdAt", lo, hi))
  IN [i \in DOMAIN found |-> found[i].createdAt]

\* User.countDocuments({ createdAt: { $lt: start } })
mongoCountBefore(docs, start) ==
  Len(SelectSeq(docs, LAMBDA d : /\ "createdAt" \in DOMAIN d
                                 /\ d.createdAt # NullDate
                                 /\ d.createdAt < start))

\* MarketplaceItem.find({ $or: [{ approvedAt: ... }, { createdAt: ... }] },
\*                      { type: 1, data: 1, approvedAt: 1, createdAt: 1 })
mongoItemsWithin(items, lo, hi) ==
  LET found == SelectSeq(items, LAMBDA it :
                 \/ DateMatches(it, "approvedAt", lo, hi)
                 \/ DateMatches(it, "createdAt", lo, hi))
  IN [i \in DOMAIN found |->
        [type |-> found[i].type, data |-> found[i].data,
         approvedAt |-> found[i].approvedAt,
         createdAt |-> found[i].createdAt]]

\* What a call of the route has read so far: the window, the baseline, the
\* dates of the users and of the requests in the window, the items of the
\* window and of the month, and the two totals.
Selection(start, end) ==
  [start |-> start, end |-> end, base |-> 0, users |-> <<>>, total |-> 0,
   requests |-> <<>>, forRange |-> <<>>, forMonth |-> <<>>, totalUsers |-> 0,
   sessions |-> 0]

\* The degraded branches of the route over the lists of a store; dflt is
\* the reading of the clock that dates a record without a createdAt.
localSelectionOf(users, requests, items, start, end, dflt) ==
  [start |-> start, end |-> end,
   base |-> datesBefore(localDates(users, dflt), start),
   users |-> datesWithin(localDates(users, dflt), start, end),
   total |-> Len(requests),
   requests |-> datesWithin(localDates(requests, dflt), start, end),
   forRange |-> localItemsWithin(items, start, end, dflt),
   forMonth |-> localItemsWithin(items, monthStartOf(end), end, dflt),
   totalUsers |-> Len(users), sessions |-> activeSessions]

\* The degraded branches of the route, all in one turn.
localSelection(start, end, dflt) ==
  localSelectionOf(localDB.users, localDB.marketplaceRequests,
                   localDB.marketplaceItems, start, end, dflt)

\* The queries of the connected branches of the route over the collections
\* of a store.
mongoSelectionOf(users, requests, items, start, end) ==
  [start |-> start, end |-> end,
   base |-> mongoCountBefore(users, start),
   users |-> mongoDatesWithin(users, start, end),
   total |-> Len(requests),
   requests |-> mongoDatesWithin(requests, start, end),
   forRange |-> mongoItemsWithin(items, start, end),
   forMonth |-> mongoItemsWithin(items, monthStartOf(end), end),
   totalUsers |-> Len(users), sessions |-> activeSessions]

\* The JSON body computed from what was read.
analyticsBody(range, sel) ==
  LET keys == bucketKeysOf(sel.start, sel.end) IN
    [range |-> range,
     userGrowth |-> growthFrom(keys, 1, Len(keys), sel.base, sel.users),
     bookings |-> bookingsOf(keys, sel.requests),
     revenueBreakdown |-> revenueBreakdownOf(sel.forRange),
     metrics |-> [totalUsers |-> sel.totalUsers,
                  activeSessions |-> sel.sessions,
                  totalBookings |-> sel.total,
                  revenueMTD |-> sumAmounts(sel.forMonth, 1)]]

\* typeof req.query.range === "string" ? req.query.range : "7d"
rangeOf(query) == IF query = "" THEN "7d" ELSE query

\* The response of the route: arg is the range, before is what was read.
analyticsResponse(mode, query, sel) ==
  [Response("analytics", mode, 0, 200, rangeOf(query), <<sel>>,
            <<analyticsBody(rangeOf(query), sel)>>)
     EXCEPT !.query = query, !.at = sel.end]

\* The degraded route has no await.  A record without a createdAt is dated
\* by a `new Date()` read after `end`: in the same tick, or later.
analyticsLocal(query) ==
  /\ MarketOpen /\ ~mongoConnected
  /\ UNCHANGED <<localDB, nextId, nextUserId>>
  /\ \E late \in {0, 1} :
       Reply(analyticsResponse("local", query,
               localSelection(startOf(now, parseRangeDays(rangeOf(query))),
                              now, now + late)))

analyticsStart(limit, query) ==
  /\ MarketOpen /\ mongoConnected /\ CanSuspend(limit)
  /\ UNCHANGED <<nextId, nextUserId>>
  /\ Suspend([Call("analytics", "baseUsers", 0, "", query) EXCEPT
                !.doc = <<Selection(
                            startOf(now, parseRangeDays(rangeOf(query))),
                            now)>>])

\* One await of the connected route: the handler stores what the query
\* returned and goes on to the next await.
analyticsAwait(c, pc, next, sel) ==
  /\ calls[c].kind = "analytics" /\ calls[c].pc = pc
  /\ UNCHANGED <<mongo, nextId, nextUserId>>
  /\ Resume(c, [calls[c] EXCEPT !.pc = next, !.doc = <<sel>>])

\* await User.countDocuments({ createdAt: { $lt: start } })
analyticsBaseUsers(c) ==
  LET sel == calls[c].doc[1] IN
    analyticsAwait(c, "baseUsers", "usersInRange",
      [sel EXCEPT !.base = mongoCountBefore(mongo.users, sel.start)])

\* await User.find({ createdAt: { $gte: start, $lte: end } }).lean()
analyticsUsersInRange(c) ==
  LET sel == calls[c].doc[1] IN
    analyticsAwait(c, "usersInRange", "totalBookings",
      [sel EXCEPT !.users = mongoDatesWithin(mongo.users, sel.start, sel.end)])

\* await MarketplaceRequest.countDocuments()
analyticsTotalBookings(c) ==
  LET sel == calls[c].doc[1] IN
    analyticsAwait(c, "totalBookings", "requestsInRange",
      [sel EXCEPT !.total = Len(mongo.requests)])

\* await MarketplaceRequest.find({ createdAt: { $gte: start, $lte: end } })
analyticsRequestsInRange(c) ==
  LET sel == calls[c].doc[1] IN
    analyticsAwait(c, "requestsInRange", "itemsForRange",
      [sel EXCEPT !.requests =
                    mongoDatesWithin(mongo.requests, sel.start, sel.end)])

\* await MarketplaceItem.find({ $or: ... start ... end })
analyticsItemsForRange(c) ==
  LET sel == calls[c].doc[1] IN
    analyticsAwait(c, "itemsForRange", "itemsForMonth",
      [sel EXCEPT !.forRange =
                    mongoItemsWithin(mongo.items, sel.start, sel.end)])

\* await MarketplaceItem.find({ $or: ... monthStart ... end }); the handler
\* goes on through the revenue sums and the count of activeSessions to the
\* await inside res.json(...).
analyticsItemsForMonth(c) ==
  LET sel == calls[c].doc[1] IN
    analyticsAwait(c, "itemsForMonth", "totalUsers",
      [sel EXCEPT !.forMonth =
                    mongoItemsWithin(mongo.items, monthStartOf(sel.end),
                                     sel.end),
                  !.sessions = activeSessions])

\* totalUsers: await User.countDocuments(), inside res.json(...)
analyticsTotalUsers(c) ==
  /\ calls[c].kind = "analytics" /\ calls[c].pc = "totalUsers"
  /\ UNCHANGED <<mongo, nextId, nextUserId>>
  /\ Finish(c, analyticsResponse("mongo", calls[c].arg,
                 [calls[c].doc[1] EXCEPT !.totalUsers = Len(mongo.users)]))

\* ------------------------------------------- /api/companion-applications
\* The companion routes of part_001 have no branch on the mode flag and no
\* try / catch.  Of the fields of an application the model keeps id,
\* fullName, status and the three dates.  In a body "" is a field that is
\* missing.
CompanionBodies ==
  {[fullName |-> n, status |-> s] : n \in {"", "Cy"}, s \in {"", "approved"}}

CompanionStatusInputs == {"", "approved", "rejected", "on-hold"}

\* The document CompanionApplication.create builds: `status: "pending"`,
\* `submittedAt: new Date()`, and the schema's timestamps.
NewApplication(id, payload, submitted, at) ==
  [id |-> id, fullName |-> payload.fullName, status |-> "pending",
   submittedAt |-> submitted, createdAt |-> at, updatedAt |-> at]

\* The update of PUT: `payload.x !== undefined ? { x: payload.x } : {}` for
\* every field, status among them; the timestamps plugin sets updatedAt.
UpdatedApplication(app, payload, at) ==
  [app EXCEPT !.fullName = OrDefault(payload.fullName, @),
              !.status = OrDefault(payload.status, @),
              !.updatedAt = at]

\* The update of PATCH .../status: `{ status }`.
StatusApplication(app, status, at) ==
  [app EXCEPT !.status = status, !.updatedAt = at]

\* toAdminCompanion: `status: app.status || "pending"`.
toAdminCompanion(app) ==
  [id |-> app.id, name |-> app.fullName,
   status |-> OrDefault(app.status, "pending"), appliedDate |-> toDateKey(app.submittedAt)]

\* toPublicCompanion: the status is not part of the public object.
toPublicCompanion(app) == [id |-> app.id, name |-> app.fullName]

\* find with every application that is not pending.
C31_Mutant_findApproved(apps) ==
  SelectSeq(apps, LAMBDA a : a.status # "pending")

\* CompanionApplication.find({ status: "approved" })
findApproved(apps) == SelectSeq(apps, LAMBDA a : a.status = "approved")

RECURSIVE InsertUpdatedDesc(_, _)
InsertUpdatedDesc(s, x) ==
  IF s = <<>> THEN <<x>>
  ELSE IF x.updatedAt > Head(s).updatedAt THEN <<x>> \o s
       ELSE <<Head(s)>> \o InsertUpdatedDesc(Tail(s), x)

RECURSIVE SortUpdatedDesc(_)
\* .sort({ updatedAt: -1 })
SortUpdatedDesc(s) ==
  IF s = <<>> THEN <<>>
  ELSE InsertUpdatedDesc(SortUpdatedDesc(Tail(s)), Head(s))

\* An io.emit outside any try: if it throws, the rejection leaves the
\* handler after the store was written, and the request is never answered
\* (status 0) or the framework's error handler answers 500.
EmitUncaught(c, ev, r) ==
  IF ev.name \in ioThrows
  THEN \E status \in {0, 500} :
         Finish(c, [r EXCEPT !.status = status, !.body = <<>>, !.threw = TRUE])
  ELSE Finish(c, [r EXCEPT !.events = <<ev>>])

\* `requiredFields.filter((field) => !payload[field])`, not empty: 400.
companionCreateInvalid(payload) ==
  /\ MarketOpen
  /\ payload.fullName = ""
  /\ resp' = Response("createCompanion", "none", 0, 400, "", <<>>, <<>>)
  /\ UNCHANGED <<deployment, dbRejects, zone, sockets, connectedClients, ioThrows, idCap, initPc, mongoConnected, localDB,
                 mongo, calls, now, nextId, nextUserId, hist>>

\* POST: suspends on `await CompanionApplication.create`.
companionCreateStart(limit, payload) ==
  /\ MarketOpen /\ CanSuspend(limit)
  /\ payload.fullName # ""
  /\ nextId <= idCap
  /\ nextId' = nextId + 1
  /\ UNCHANGED nextUserId
  /\ SuspendUnobserved([Call("createCompanion", "create", nextId, "", "")
                          EXCEPT !.doc = <<payload>>])

\* await CompanionApplication.create(...), io.emit, res.status(201).
companionCreateExec(c) ==
  /\ calls[c].kind = "createCompanion" /\ calls[c].pc = "create"
  /\ initPc # "connect"
  /\ UNCHANGED <<nextId, nextUserId>>
  /\ LET app == NewApplication(calls[c].id, calls[c].doc[1], calls[c].at,
                               now) IN
       IF ~mongoConnected
       THEN /\ mongo' = mongo
            /\ Rejected(c, "createCompanion")
       ELSE /\ mongo' = [mongo EXCEPT !.applications = Append(@, app)]
            /\ EmitUncaught(c, Event("new-companion-request", app.id),
                 [Response("createCompanion", "mongo", app.id, 201, "", <<>>,
                           <<[id |-> app.id, status |-> app.status,
                              submittedAt |-> app.submittedAt]>>)
                    EXCEPT !.made = app.id])

\* PUT: suspends on `await CompanionApplication.findOneAndUpdate`.
companionUpdateStart(limit, id, payload) ==
  /\ MarketOpen /\ CanSuspend(limit)
  /\ UNCHANGED <<nextId, nextUserId>>
  /\ SuspendUnobserved([Call("updateCompanion", "update", id, "", "")
                          EXCEPT !.doc = <<payload>>])

\* await findOneAndUpdate({ id }, {...}, { new: true, runValidators: true });
\* `if (!updated)` 404.  The schema has no validator on status.
companionUpdateExec(c) ==
  /\ calls[c].kind = "updateCompanion" /\ calls[c].pc = "update"
  /\ initPc # "connect"
  /\ UNCHANGED <<nextId, nextUserId>>
  /\ LET id == calls[c].id
         i == findIndex(mongo.applications, id) IN
       IF ~mongoConnected
       THEN /\ mongo' = mongo
            /\ Rejected(c, "updateCompanion")
       ELSE IF i = 0
       THEN /\ mongo' = mongo
            /\ Finish(c, Response("updateCompanion", "mongo", id, 404, "",
                                  <<>>, <<>>))
       ELSE LET app == UpdatedApplication(mongo.applications[i],
                                          calls[c].doc[1], now) IN
              /\ mongo' = [mongo EXCEPT !.applications[i] = app]
              /\ Finish(c, Response("updateCompanion", "mongo", id, 200, "",
                                    <<mongo.applications[i]>>,
                                    <<toAdminCompanion(app)>>))

\* PATCH .../status, `if (!status)`: 400.
companionStatusInvalid(id, status) ==
  /\ MarketOpen
  /\ status = ""
  /\ resp' = Response("statusCompanion", "none", id, 400, status, <<>>, <<>>)
  /\ UNCHANGED <<deployment, dbRejects, zone, sockets, connectedClients, ioThrows, idCap, initPc, mongoConnected, localDB,
                 mongo, calls, now, nextId, nextUserId, hist>>

\* PATCH .../status: suspends on `await findOneAndUpdate`.
companionStatusStart(limit, id, status) ==
  /\ MarketOpen /\ CanSuspend(limit)
  /\ status # ""
  /\ UNCHANGED <<nextId, nextUserId>>
  /\ SuspendUnobserved(Call("statusCompanion", "update", id, "", status))

\* await findOneAndUpdate({ id }, { status }, ...); `if (!updated)` 404;
\* io.emit("request-status-updated"); res.json.
companionStatusExec(c) ==
  /\ calls[c].kind = "statusCompanion" /\ calls[c].pc = "update"
  /\ initPc # "connect"
  /\ UNCHANGED <<nextId, nextUserId>>
  /\ LET id == calls[c].id
         i == findIndex(mongo.applications, id) IN
       IF ~mongoConnected
       THEN /\ mongo' = mongo
            /\ Rejected(c, "statusCompanion")
       ELSE IF i = 0
       THEN /\ mongo' = mongo
            /\ Finish(c, Response("statusCompanion", "mongo", id, 404,
                                  calls[c].arg, <<>>, <<>>))
       ELSE LET app == StatusApplication(mongo.applications[i], calls[c].arg,
                                         now) IN
              /\ mongo' = [mongo EXCEPT !.applications[i] = app]
              /\ EmitUncaught(c, Event("request-status-updated", id),
                   Response("statusCompanion", "mongo", id, 200, calls[c].arg,
                            <<mongo.applications[i]>>,
                            <<toAdminCompanion(app)>>))

\* DELETE: suspends on `await CompanionApplication.deleteOne`.
companionDeleteStart(limit, id) ==
  /\ MarketOpen /\ CanSuspend(limit)
  /\ UNCHANGED <<nextId, nextUserId>>
  /\ SuspendUnobserved(Call("deleteCompanion", "delete", id, "", ""))

\* await deleteOne({ id }); `if (deleted.deletedCount === 0)` 404.
companionDeleteExec(c) ==
  /\ calls[c].kind = "deleteCompanion" /\ calls[c].pc = "delete"
  /\ initPc # "connect"
  /\ UNCHANGED <<nextId, nextUserId>>
  /\ LET id == calls[c].id
         i == findIndex(mongo.applications, id) IN
       IF ~mongoConnected
       THEN /\ mongo' = mongo
            /\ Rejected(c, "deleteCompanion")
       ELSE IF i = 0
       THEN /\ mongo' = mongo
            /\ Finish(c, Response("deleteCompanion", "mongo", id, 404, "",
                                  <<>>, <<>>))
       ELSE /\ mongo' = [mongo EXCEPT !.applications = splice(@, i)]
            /\ Finish(c, Response("deleteCompanion", "mongo", id, 200, "",
                                  <<mongo.applications[i]>>, <<>>))

\* GET /api/companions: suspends on `await CompanionApplication.find`.
companionsListStart(limit) ==
  /\ MarketOpen /\ CanSuspend(limit)
  /\ UNCHANGED <<nextId, nextUserId>>
  /\ SuspendUnobserved(Call("listCompanions", "find", 0, "", ""))

\* await find({ status: "approved" }).sort({ updatedAt: -1 }).lean(), mapped
\* by toPublicCompanion.
companionsListFind(c) ==
  /\ calls[c].kind = "listCompanions" /\ calls[c].pc = "find"
  /\ initPc # "connect"
  /\ UNCHANGED <<mongo, nextId, nextUserId>>
  /\ IF ~mongoConnected
     THEN Rejected(c, "listCompanions")
     ELSE LET sorted == SortUpdatedDesc(findApproved(mongo.applications)) IN
            Finish(c, Response("listCompanions", "mongo", 0, 200, "", <<>>,
                               [i \in DOMAIN sorted |->
                                  toPublicCompanion(sorted[i])]))

\* The companion routes, with at most `limit` handlers suspended at once.
Companions(limit, bodies, statuses) ==
  \/ \E payload \in bodies :
       companionCreateInvalid(payload) \/ companionCreateStart(limit, payload)
  \/ \E id \in Ids, payload \in bodies :
       companionUpdateStart(limit, id, payload)
  \/ \E id \in Ids, status \in statuses :
       companionStatusInvalid(id, status) \/ companionStatusStart(limit, id, status)
  \/ \E id \in Ids : companionDeleteStart(limit, id)
  \/ companionsListStart(limit)
  \/ \E c \in Slots :
       \/ companionCreateExec(c)
       \/ companionUpdateExec(c)
       \/ companionStatusExec(c)
       \/ companionDeleteExec(c)
       \/ companionsListFind(c)

\* The instants at which the clock of the analytics is read: two on the
\* first day and the same two six days later, on the last day of a window of
\* seven days that has the first day as its first bucket.
Instants == {1, 2, 1 + 6 * TicksPerDay, 2 + 6 * TicksPerDay}

\* Time passes up to instant t.
Advance(t) ==
  /\ t > now
  /\ now' = t
  /\ resp' = NoResp
  /\ UNCHANGED <<deployment, dbRejects, zone, sockets, connectedClients, ioThrows, idCap, initPc, mongoConnected,
                 localDB, mongo, calls, nextId, nextUserId, hist>>

\* The marketplace routes, with at most `limit` handlers suspended at once
\* and the body fields of the calls drawn from the given sets.
SubmitsOf(limit, types, datas) ==
  \/ \E type \in types, data \in datas :
       \/ submitInvalid(type, data)
       \/ submitLocal(type, data)
       \/ submitStart(limit, type, data)
  \/ \E c \in Slots : submitSave(c)

Submits(limit, types) == SubmitsOf(limit, types, DataInputs)

Gets(limit) ==
  \/ \E id \in Ids :
       \/ getRequestLocal(id)
       \/ getRequestStart(limit, id)
  \/ \E c \in Slots : getRequestFind(c)

Approvals(limit, approvers) ==
  \/ \E id \in Ids, by \in approvers :
       \/ approveLocal(id, by)
       \/ approveStart(limit, id, by)
  \/ \E c \in Slots :
       \/ approveUpdate(c)
       \/ approveFindItem(c)
       \/ approveSaveItem(c)

Deletes(limit) ==
  \/ \E id \in Ids :
       \/ deleteLocal(id)
       \/ deleteStart(limit, id)
  \/ \E c \in Slots : deleteExec(c)

Lists(limit) ==
  \/ \E status \in StatusInputs :
       \/ listItemsLocal(status)
       \/ listItemsStart(limit, status)
  \/ \E c \in Slots : listItemsFind(c)

Completes(limit, completers) ==
  \/ \E id \in Ids, by \in completers :
       \/ completeLocal(id, by)
       \/ completeStart(limit, id, by)
  \/ \E c \in Slots : completeUpdate(c)

Analytics(limit, queries) ==
  \/ \E query \in queries :
       \/ analyticsLocal(query)
       \/ analyticsStart(limit, query)
  \/ \E c \in Slots :
       \/ analyticsBaseUsers(c)
       \/ analyticsUsersInRange(c)
       \/ analyticsTotalBookings(c)
       \/ analyticsRequestsInRange(c)
       \/ analyticsItemsForRange(c)
       \/ analyticsItemsForMonth(c)
       \/ analyticsTotalUsers(c)

\* ---------------------------------------------------------- specifications
\* part_001: the marketplace with its startup chain.
InitMarket == InitWith({"vercel", "listen"})

\* Calls that overlap; every call leaves approvedBy / completedBy out.
NextMarket ==
  \/ Startup
  \/ Submits(MaxCalls, {"", "retreat"})
  \/ Approvals(MaxCalls, {""})
  \/ Deletes(MaxCalls)
  \/ Completes(MaxCalls, {""})

SpecMarket == InitMarket /\ [][NextMarket]_vars

\* The calls issued one after the other.
NextSeq ==
  \/ Startup
  \/ Submits(1, TypeInputs)
  \/ Gets(1)
  \/ Approvals(1, {""})
  \/ Deletes(1)
  \/ Lists(1)
  \/ Completes(1, {""})

SpecSeq == InitMarket /\ [][NextSeq]_vars

\* The calls issued one after the other, at different times, by different
\* administrators.
NextStamp ==
  \/ Startup
  \/ Tick
  \/ Submits(1, {"retreat"})
  \/ Approvals(1, {""})
  \/ Completes(1, ByInputs)

SpecStamp == InitMarket /\ [][NextStamp]_vars

\* The user accounts of either application, with registrations that overlap
\* each other and the startup chain.
\* The marketplace workflow, one call at a time, with a notifier that may
\* throw on one of the workflow's events.
FaultSets ==
  {{}, {"marketplace-new-request"}, {"marketplace-request-approved"},
   {"marketplace-item-created"}, {"marketplace-item-completed"}}

InitFault == InitIo({"vercel", "listen"}, FaultSets)

NextFault ==
  \/ Startup
  \/ Submits(1, {"retreat"})
  \/ Approvals(1, {""})
  \/ Completes(1, {""})

SpecFault == InitFault /\ [][NextFault]_vars

\* The marketplace workflow with a clock, one call at a time, behind
\* server.listen, with one more id so that two requests have an item each.
InitList == InitCap({"listen"}, {{}}, MaxIds + 1)

NextList ==
  \/ Startup
  \/ Tick
  \/ Submits(1, {"retreat"})
  \/ Approvals(1, {""})
  \/ Completes(1, {""})
  \/ Lists(1)

SpecList == InitList /\ [][NextList]_vars

NextAuth == Startup \/ Registers(MaxCalls)

SpecAuth == Init /\ [][NextAuth]_vars

\* The whole backend.
\* The user routes of both apps, one call at a time.
NextUsers ==
  \/ Startup
  \/ Registers(1)
  \/ Logins(1, {"", "Ann@x.io", "Admin@Nirvaha.com"},
               {"", RegisterPassword, AdminPassword})
  \/ GetUsers(1)
  \/ UpdateUsers(1, {b \in UserBodies : b.profile = <<>>})

SpecUsers == Init /\ [][NextUsers]_vars

\* The serverless app with register and the user update, whose bodies carry
\* names and partial profiles.
InitProfile == InitWith({"api"})

NextProfile ==
  \/ connectMongo
  \/ initLocalAdminUserFind
  \/ initLocalAdminUserPush
  \/ Registers(1)
  \/ UpdateUsers(1, UserBodies)

SpecProfile == InitProfile /\ [][NextProfile]_vars

\* Bodies of POST and PUT on a catalog: nothing; the required fields alone;
\* every field; a title without a duration.
NoMood == [isArray |-> FALSE, value |-> <<>>]

CatalogBodies ==
  {[title |-> "", duration |-> NotANumber, level |-> "", status |-> "",
    mood |-> NoMood],
   [title |-> "Calm", duration |-> 10, level |-> "", status |-> "",
    mood |-> NoMood],
   [title |-> "Rain", duration |-> 0, level |-> "Beginner",
    status |-> "Active", mood |-> [isArray |-> TRUE, value |-> <<"calm">>]],
   [title |-> "Dawn", duration |-> NotANumber, level |-> "", status |-> "",
    mood |-> NoMood]}

\* Bodies of PUT: nothing, and every field.
CatalogUpdateBodies == {b \in CatalogBodies : b.title \in {"", "Rain"}}

\* Writing the catalogs, one call at a time.
NextCatalog ==
  \/ Startup
  \/ CatalogCreates(1, CatalogBodies)
  \/ CatalogUpdates(1, CatalogUpdateBodies)
  \/ CatalogDeletes(1)

SpecCatalog == InitMarket /\ [][NextCatalog]_vars

\* Creating and reading the catalogs, one call at a time.
NextRound ==
  \/ Startup
  \/ CatalogCreates(1, CatalogBodies)
  \/ CatalogLists(1)

SpecRound == InitMarket /\ [][NextRound]_vars

\* Registration next to a startup chain whose seeding steps may run again.
NextSeed == NextAuth \/ reseed

SpecSeed == Init /\ [][NextSeed]_vars

Next ==
  \/ Startup
  \/ Tick
  \/ Registers(MaxCalls)
  \/ Submits(MaxCalls, TypeInputs)
  \/ Gets(MaxCalls)
  \/ Approvals(MaxCalls, ByInputs)
  \/ Deletes(MaxCalls)
  \/ Lists(MaxCalls)
  \/ Completes(MaxCalls, ByInputs)

Spec == Init /\ [][Next]_vars

\* The register route of part_001, which has no degraded branch.
Signups(limit, emails) ==
  \/ \E email \in emails : registerInvalid(email) \/ registerStart(limit, email)
  \/ \E c \in Slots : registerFind(c) \/ registerSave(c)

\* The time zones of the servers: west of, on and east of Greenwich.
Zones == {-1, 0, 1}

\* part_001 behind server.listen in any time zone: users and requests are
\* created on different days and the analytics are read.
InitZones == InitAll({"listen"}, {{}}, 2, Zones)

NextZones ==
  \/ Startup
  \/ \E t \in Instants : Advance(t)
  \/ Signups(1, {"", "Ann@x.io"})
  \/ SubmitsOf(1, {"retreat"}, {"", "price120"})
  \/ Analytics(1, {"", "30d"})

SpecZones == InitZones /\ [][NextZones]_vars

\* The analytics read with every range, in any time zone.
NextRanges ==
  \/ Startup
  \/ \E t \in Instants : Advance(t)
  \/ SubmitsOf(1, {"retreat"}, {"", "price120"})
  \/ Analytics(1, RangeInputs)

SpecRanges == InitZones /\ [][NextRanges]_vars

\* part_001 behind server.listen on a server in UTC: requests are submitted
\* and deleted on different days and the analytics are read.
InitUtc == InitAll({"listen"}, {{}}, MaxIds, {0})

NextBookings ==
  \/ Startup
  \/ \E t \in Instants : Advance(t)
  \/ SubmitsOf(1, {"retreat"}, {"", "price120"})
  \/ Deletes(1)
  \/ Analytics(1, {"", "30d"})

SpecBookings == InitUtc /\ [][NextBookings]_vars

\* Requests of every payload are submitted and approved, and the analytics
\* are read.
InitAmounts == InitAll({"listen"}, {{}}, 2, {0})

NextAmounts ==
  \/ Startup
  \/ SubmitsOf(1, {"retreat"}, PayloadInputs)
  \/ Approvals(1, {""})
  \/ Analytics(1, {""})

SpecAmounts == InitAmounts /\ [][NextAmounts]_vars

\* Requests of two types are submitted and approved on different days, on
\* a server in UTC, and the analytics are read.
InitRevenue == InitAll({"listen"}, {{}}, MaxIds + 1, {0})

NextRevenue ==
  \/ Startup
  \/ Advance(1 + 6 * TicksPerDay)
  \/ SubmitsOf(1, {"retreat", "session"}, {"", "{amount:'7.5'}"})
  \/ Approvals(1, {""})
  \/ Analytics(1, {"", "30d"})

SpecRevenue == InitRevenue /\ [][NextRevenue]_vars

\* The companion routes, one call after the other, while time passes.
InitCompanions == InitAll({"listen"}, {{}}, 2, {0})

NextCompanions ==
  \/ Startup
  \/ Tick
  \/ Companions(1, CompanionBodies, CompanionStatusInputs)

SpecCompanions == InitCompanions /\ [][NextCompanions]_vars

\* Submit and approve, one call after the other, at different times, by
\* different administrators.
InitReapprove == InitCap({"vercel", "listen"}, {{}}, 2)

NextReapprove ==
  \/ Startup
  \/ Tick
  \/ Submits(1, {"retreat"})
  \/ Approvals(1, ByInputs)

SpecReapprove == InitReapprove /\ [][NextReapprove]_vars

\* Submit and approve, one call after the other, next to a MongoDB that may
\* reject the insert of an item.
InitRejects ==
  InitStore({"listen"}, {{}}, MaxIds, {0}, {{}, {"MarketplaceItem.save"}})

NextRejects ==
  \/ Startup
  \/ Submits(1, {"retreat"})
  \/ Approvals(1, {""})

SpecRejects == InitRejects /\ [][NextRejects]_vars

\* The analytics route while requests are submitted and deleted and users
\* register, the calls overlapping.
InitOverlap == InitAll({"listen"}, {{}}, 2, {0})

NextOverlap ==
  \/ Startup
  \/ Signups(MaxCalls, {"", "Ann@x.io"})
  \/ SubmitsOf(MaxCalls, {"retreat"}, {"", "price120"})
  \/ Deletes(MaxCalls)
  \/ Analytics(MaxCalls, {""})

SpecOverlap == InitOverlap /\ [][NextOverlap]_vars

\* The clients of the notifier next to the analytics route.
InitSessions == InitAll({"listen"}, {{}}, 1, {0})

NextSessions ==
  \/ Startup
  \/ Connections(RegisterInputs)
  \/ Analytics(1, {""})

SpecSessions == InitSessions /\ [][NextSessions]_vars

\* -------------------------------------------------------------- properties
StoreRequests(mode) ==
  IF mode = "local" THEN localDB.marketplaceRequests ELSE mongo.requests

StoreItems(mode) ==
  IF mode = "local" THEN localDB.marketplaceItems ELSE mongo.items

\* The items of either store that were made from request rid.
ItemsFor(rid) ==
  {it \in Range(localDB.marketplaceItems) \cup Range(mongo.items) :
     it.requestId = rid}

\* The items of one store that were made from request rid.
ItemsIn(mode, rid) == {it \in Range(StoreItems(mode)) : it.requestId = rid}

\* C1: when the approve calls are issued one after the other, a request that
\* has been approved successfully, once or several times, in either mode, has
\* exactly one item: the second and later calls create no further item.
C1_ApproveIdempotent ==
  \A r \in Ids : hist.approveOk[r] >= 1 => Cardinality(ItemsFor(r)) = 1

\* C1: a second successful approve of the same request has just been
\* answered by MongoDB's branch, and the request has one item.
C1_Witness ==
  /\ resp.kind = "approve" /\ resp.mode = "mongo" /\ resp.status = 200
  /\ resp.before[1].status = "approved"
  /\ hist.approveOk[resp.id] = 2
  /\ Cardinality(ItemsFor(resp.id)) = 1

\* C2: in connected mode no approve call is refused for a conflict: a call
\* that found no item inserts its own and answers 200, whatever other calls
\* have inserted meanwhile; so two overlapping calls leave two items with one
\* requestId (C2_Witness).
C2_NoConflict ==
  resp.kind = "approve" /\ resp.mode = "mongo" =>
    /\ resp.status \in {200, 404}
    /\ resp.status = 200 /\ resp.made # 0 =>
         \E it \in Range(mongo.items) :
           it.id = resp.made /\ it.requestId = resp.id

\* C2: two items of MongoDB share one requestId, after two approve calls
\* that both answered 200.
C2_Witness ==
  /\ resp.kind = "approve" /\ resp.mode = "mongo" /\ resp.status = 200
  /\ hist.approveOk[resp.id] = 2
  /\ Cardinality(ItemsIn("mongo", resp.id)) = 2

\* C3: no two items of the in-process store share a requestId, and no
\* marketplace handler that took the localDB branch is suspended: each ran
\* to its response in the turn that started it.
C3_LocalItemsUnique ==
  /\ \A i, j \in DOMAIN localDB.marketplaceItems :
       i # j => localDB.marketplaceItems[i].requestId #
                localDB.marketplaceItems[j].requestId
  /\ \A c \in Busy :
       calls[c].kind \in {"submit", "get", "approve", "delete", "list",
                          "complete"} => mongoConnected

\* C3: in degraded mode a request has been approved twice and has its item.
C3_Witness ==
  /\ ~mongoConnected
  /\ resp.kind = "approve" /\ resp.mode = "local" /\ resp.status = 200
  /\ hist.approveOk[resp.id] = 2
  /\ Cardinality(ItemsIn("local", resp.id)) = 1

\* C4: when an approve of a pending request answers 200, the request (as
\* answered, and as stored if it is still stored) is approved with
\* approvedAt and approvedBy set, and the store holds exactly one item with
\* that requestId, which is active and has the request's type and data.
C4_ApprovePost ==
  resp.kind = "approve" /\ resp.status = 200 /\
  resp.before[1].status = "pending" =>
    /\ resp.body[1].status = "approved"
    /\ resp.body[1].approvedAt # NullDate
    /\ resp.body[1].approvedBy = resp.arg
    /\ \A r \in Range(StoreRequests(resp.mode)) :
         r.id = resp.id =>
           r.status = "approved" /\ r.approvedAt # NullDate /\
           r.approvedBy # NullBy
    /\ \E it \in ItemsIn(resp.mode, resp.id) :
         /\ ItemsIn(resp.mode, resp.id) = {it}
         /\ it.status = "active"
         /\ it.type = resp.body[1].type
         /\ it.data = resp.body[1].data

\* C5: every handler that read the mode flag read the same value.
C5_ModeFixed == Cardinality(hist.modes) <= 1

\* C6: no store holds two users with the same email.
C6_UniqueEmail ==
  /\ \A i, j \in DOMAIN localDB.users :
       i # j => localDB.users[i].email # localDB.users[j].email
  /\ \A i, j \in DOMAIN mongo.users :
       i # j => mongo.users[i].email # mongo.users[j].email

\* C7: a listing of the items answered after a request was submitted with
\* data D and approved holds, under "active", exactly one item of that
\* request, active and with data D, as long as the item was not completed;
\* once it was completed, the "active" listing holds none and the
\* "completed" listing holds it.
C7_EndToEnd ==
  resp.kind = "list" /\ resp.status = 200 =>
    \A s \in hist.submitted :
      hist.approveOk[s[1]] >= 1 =>
        LET listed == {i \in DOMAIN resp.body : resp.body[i].requestId = s[1]}
            done == \E it \in ItemsFor(s[1]) : it.id \in hist.completed
        IN  IF resp.arg = "active"
            THEN IF done THEN listed = {}
                 ELSE /\ Cardinality(listed) = 1
                      /\ \A i \in listed : /\ resp.body[i].data = s[2]
                                           /\ resp.body[i].status = "active"
            ELSE done => Cardinality(listed) = 1

\* Every record of `old` that is still in `new` and had status `terminal`
\* has it in `new`.
StaysTerminal(old, new, terminal) ==
  \A i \in DOMAIN old, j \in DOMAIN new :
    old[i].id = new[j].id /\ old[i].status = terminal =>
      new[j].status = terminal

\* C8: no step takes an approved request back to pending, or a completed
\* item back to active, in either store.
C8_Terminal ==
  [][/\ StaysTerminal(localDB.marketplaceRequests,
                      localDB'.marketplaceRequests, "approved")
     /\ StaysTerminal(mongo.requests, mongo'.requests, "approved")
     /\ StaysTerminal(localDB.marketplaceItems,
                      localDB'.marketplaceItems, "completed")
     /\ StaysTerminal(mongo.items, mongo'.items, "completed")]_vars

\* C8: a completed item has been completed again, and its request, already
\* approved, has been approved again.
C8_Witness ==
  /\ resp.kind = "complete" /\ resp.status = 200
  /\ resp.before[1].status = "completed"
  /\ resp.body[1].status = "completed"
  /\ hist.approveOk[resp.body[1].requestId] = 2
  /\ \E r \in Range(StoreRequests(resp.mode)) :
       r.id = resp.body[1].requestId /\ r.status = "approved"

\* C9: a complete call that finds its item already completed answers 200,
\* and the item, as answered and as stored, is completed and carries the
\* time and the completedBy of this call.
C9_Restamp ==
  resp.kind = "complete" /\ resp.before # <<>> /\
  resp.before[1].status = "completed" =>
    /\ resp.status = 200
    /\ resp.body[1].status = "completed"
    /\ resp.body[1].completedAt = resp.at
    /\ resp.body[1].completedBy = resp.arg
    /\ \E it \in Range(StoreItems(resp.mode)) : it = resp.body[1]

\* C9: an item completed earlier by another administrator has been
\* completed again at a later time, on MongoDB.
C9_Witness ==
  /\ resp.kind = "complete" /\ resp.mode = "mongo" /\ resp.status = 200
  /\ resp.before # <<>> /\ resp.before[1].status = "completed"
  /\ resp.before[1].completedAt < resp.body[1].completedAt
  /\ resp.before[1].completedBy # resp.body[1].completedBy

\* The collection a route looks its :id up in.
Looked(kind, mode) ==
  IF kind = "complete" THEN StoreItems(mode) ELSE StoreRequests(mode)

\* C10: get, approve and delete of a request and complete of an item answer
\* 404 exactly when no record has the id; a call answered 404 has changed no
\* store, and a call answered 200 acted on the record with that id.
C10_NotFound ==
  resp.kind \in {"get", "approve", "delete", "complete"} =>
    /\ resp.status \in {200, 404}
    /\ resp.status = 404 <=> resp.before = <<>>
    /\ resp.status = 404 =>
         /\ ~resp.changed
         /\ resp.made = 0
         /\ findIndex(Looked(resp.kind, resp.mode), resp.id) = 0
    /\ resp.status = 200 => resp.before[1].id = resp.id

\* C10: approve of a request that was approved and then deleted has been
\* answered 404; the item made by the first approve is all there is.
C10_Witness ==
  /\ resp.kind = "approve" /\ resp.status = 404 /\ resp.mode = "mongo"
  /\ Cardinality(ItemsFor(resp.id)) = 1

\* Every record of both stores.
AllRecords ==
  Range(localDB.marketplaceRequests) \cup Range(localDB.marketplaceItems) \cup
  Range(mongo.requests) \cup Range(mongo.items)

\* `new` is `old` with the one record r added.
AddedOne(old, new, r) ==
  /\ Len(new) = Len(old) + 1
  /\ Range(new) = Range(old) \cup {r}
  /\ Cardinality({i \in DOMAIN new : new[i].id = r.id}) = 1

RemovedOne(old, new, id) ==
  /\ new = SelectSeq(old, LAMBDA x : x.id # id)
  /\ Len(new) = Len(old) - 1

\* The items of `items` with status `status` are all in `listed`.
AllListed(items, status, listed) ==
  \A it \in Range(items) : it.status = status => it \in Range(listed)

\* C12: a delete answered 200 has removed the one request of that id from
\* the store of its mode and has left every item of both stores as it was;
\* and every list of items has every stored item of the asked status,
\* whether or not the item's request is still stored.
C12_NoCascade ==
  [][/\ resp'.kind = "delete" /\ resp'.status = 200 =>
          /\ localDB'.marketplaceItems = localDB.marketplaceItems
          /\ mongo'.items = mongo.items
          /\ resp'.mode = "local" =>
               /\ RemovedOne(localDB.marketplaceRequests,
                             localDB'.marketplaceRequests, resp'.id)
               /\ mongo' = mongo
          /\ resp'.mode = "mongo" =>
               /\ RemovedOne(mongo.requests, mongo'.requests, resp'.id)
               /\ localDB' = localDB
     /\ resp'.kind = "list" /\ resp'.mode = "local" =>
          AllListed(localDB'.marketplaceItems, resp'.arg, resp'.body)
     /\ resp'.kind = "list" /\ resp'.mode = "mongo" =>
          AllListed(mongo'.items, resp'.arg, resp'.body)]_vars

\* C12: a list on MongoDB has shown an item whose request has been deleted.
C12_Witness ==
  /\ resp.kind = "list" /\ resp.mode = "mongo" /\ resp.status = 200
  /\ \E i \in DOMAIN resp.body :
       /\ findIndex(mongo.requests, resp.body[i].requestId) = 0
       /\ resp.body[i] \in Range(mongo.items)

\* The state change of the call answered by r is in the store of r's mode.
Applied(r) ==
  CASE r.kind = "submit" ->
         \E x \in Range(StoreRequests(r.mode)) :
           x.id = r.made /\ x.status = "pending"
    [] r.kind = "approve" ->
         /\ \E x \in Range(StoreRequests(r.mode)) :
              x.id = r.id /\ x.status = "approved" /\ x.approvedBy = r.arg
         /\ ExistingItem(StoreItems(r.mode), r.id)
         /\ r.made # 0 =>
              \E it \in Range(StoreItems(r.mode)) :
                it.id = r.made /\ it.requestId = r.id /\ it.status = "active"
    [] r.kind = "complete" ->
         \E it \in Range(StoreItems(r.mode)) :
           it.id = r.id /\ it.status = "completed" /\ it.completedBy = r.arg
    [] OTHER -> TRUE

\* C13: when io.emit has thrown in a submit, approve or complete, the
\* change the call made before it is in the store: the request is stored,
\* or approved with its item, or the item is completed.
C13_NoRollback ==
  resp.threw /\ resp.kind \in {"submit", "approve", "complete"} =>
    Applied(resp)

\* C13: the second io.emit of an approve on MongoDB has thrown after the
\* call approved the pending request and created its item.
C13_Witness ==
  /\ resp.threw /\ resp.kind = "approve" /\ resp.mode = "mongo"
  /\ resp.made # 0 /\ resp.before[1].status = "pending"
  /\ resp.events = <<Event("marketplace-request-approved", resp.id)>>

\* C14: a submit, approve or complete whose io.emit has thrown is answered
\* with its success status.
C14_PublishFailureDiscarded ==
  resp.threw /\ resp.kind \in {"submit", "approve", "complete"} =>
    resp.status \in {200, 201}

\* The record change event e tells of is in the store of `mode`.
Committed(e, mode) ==
  CASE e.name = "marketplace-new-request" ->
         \E x \in Range(StoreRequests(mode)) : x.id = e.id
    [] e.name = "marketplace-request-approved" ->
         \E x \in Range(StoreRequests(mode)) :
           x.id = e.id /\ x.status = "approved"
    [] e.name = "marketplace-item-created" ->
         ExistingItem(StoreItems(mode), e.id)
    [] e.name = "marketplace-item-completed" ->
         \E it \in Range(StoreItems(mode)) :
           it.id = e.id /\ it.status = "completed"
    [] e.name = "marketplace-request-deleted" ->
         findIndex(StoreRequests(mode), e.id) = 0
    [] OTHER -> FALSE

\* C15: every event a call has published tells of a record change that is
\* in the store when the call answers, and a call answered 400 or 404, or
\* 500 for a save the schema rejected, has published no event.
C15_EventsFollowCommits ==
  /\ \A i \in DOMAIN resp.events : Committed(resp.events[i], resp.mode)
  /\ resp.status \in {400, 404, 500} => resp.events = <<>>

\* C15: an approve on MongoDB that created the item has published its two
\* events.
C15_Witness ==
  /\ resp.kind = "approve" /\ resp.mode = "mongo" /\ resp.made # 0
  /\ resp.events = ApproveEvents(resp.id)

\* C16: a list of items is answered 200 with exactly the stored items whose
\* status is the one asked for, "active" when the query names none, each
\* once, and no item in it is newer than one before it.
C16_ListItems ==
  resp.kind = "list" =>
    LET st == IF resp.query = "" THEN "active" ELSE resp.query
        items == StoreItems(resp.mode) IN
      /\ resp.status = 200
      /\ \A it \in Range(resp.body) : it.status = st /\ it \in Range(items)
      /\ \A it \in Range(items) : it.status = st => it \in Range(resp.body)
      /\ Len(resp.body) =
           Cardinality({i \in DOMAIN items : items[i].status = st})
      /\ \A i, j \in DOMAIN resp.body :
           i < j => resp.body[i].createdAt >= resp.body[j].createdAt

\* C16: a list without a status, served from the fallback store, has shown
\* two active items created at different times, the newer one first.
C16_LocalWitness ==
  /\ resp.kind = "list" /\ resp.mode = "local" /\ resp.query = ""
  /\ Len(resp.body) = 2
  /\ resp.body[1].createdAt > resp.body[2].createdAt

\* C17: when the startup chain has ended in degraded mode and no handler
\* has yet read the mode flag, the fallback store has exactly one user, the
\* administrator; this holds as well after the seeding steps have run again.
C17_OneAdmin ==
  initPc = "done" /\ ~mongoConnected /\ hist.modes = {} =>
    /\ Len(localDB.users) = 1
    /\ localDB.users[1].role = "admin"
    /\ localDB.users[1].email = AdminEmail

\* C17: the seeding steps have run a second time in degraded mode and have
\* ended.
C17_Witness ==
  /\ initPc = "done" /\ ~mongoConnected /\ hist.modes = {}
  /\ hist.reseeded
  /\ Len(localDB.users) = 1

\* The password hashes of the stored users.
StoredHashes ==
  {u.password : u \in Range(localDB.users) \cup Range(mongo.users)}

\* C18: no object in the body of a register, login, get-user or update-user
\* response has a password field, and none of its name, email, role and
\* profile fields is the password hash of a stored user.
C18_NoPasswordHash ==
  resp.kind \in {"register", "login", "getUser", "updateUser"} =>
    \A i \in DOMAIN resp.body :
      /\ "password" \notin DOMAIN resp.body[i]
      /\ \A f \in DOMAIN resp.body[i] \ {"id", "profile", "createdAt"} :
           resp.body[i][f] \notin StoredHashes
      /\ "profile" \in DOMAIN resp.body[i] =>
           \A f \in DOMAIN resp.body[i].profile :
             resp.body[i].profile[f] \notin StoredHashes

\* C18: an update of a registered user's name has been answered from the
\* fallback store, where the user is stored with the password hash.
C18_Witness ==
  /\ resp.kind = "updateUser" /\ resp.mode = "local" /\ resp.status = 200
  /\ resp.body[1].name = "Zed" /\ resp.body[1].role = "user"
  /\ \E u \in Range(localDB.users) :
       u.id = resp.id /\ u.password = bcryptHash(RegisterPassword)

\* C19: an update or a delete of a meditation or a sound whose id matches no
\* record is answered 404, whether or not the database is connected.
C19_CatalogNotFound ==
  resp.kind \in {"updateCatalog", "deleteCatalog"} /\ resp.before = <<>> =>
    resp.status = 404

\* The record of a catalog answer that a create call with `body` is to be
\* read back as.
ReadsBack(rec, cr) ==
  /\ rec.id = cr.id
  /\ rec.title = cr.body.title /\ rec.duration = cr.body.duration
  /\ rec.level = cr.body.level
  /\ rec.status = IF cr.body.status = "" THEN "Draft" ELSE cr.body.status
  /\ cr.coll = "sounds" =>
       rec.mood = IF cr.body.mood.isArray THEN cr.body.mood.value ELSE <<>>

C20_RoundTripOfAnswered ==
  resp.kind = "listCatalog" =>
    \A cr \in hist.creates :
      cr.coll = resp.arg /\ cr.ok =>
        \E i \in DOMAIN resp.body : ReadsBack(resp.body[i], cr)

\* The user record with the id of the last response, in the store that
\* served it.
StoredUser ==
  LET users == IF resp.mode = "local" THEN localDB.users ELSE mongo.users
  IN users[findIndex(users, resp.id)]

\* What a user update that is a partial patch leaves in record u, given the
\* record b it matched and the body it carried.
Patched(u, b, body) ==
  /\ u.id = b.id /\ u.email = b.email /\ u.role = b.role
  /\ u.name = (IF body.name = "" THEN b.name ELSE body.name)
  /\ \A f \in ProfileFields :
       u.profile[f] = (IF body.profile # <<>> /\ f \in DOMAIN body.profile[1]
                       THEN body.profile[1][f] ELSE b.profile[f])

\* C21: a successful user update, in either mode, changes only the fields
\* its body supplies: the name when one is given and the profile fields the
\* supplied profile carries; the other profile fields, the id, the email,
\* the password hash and the role keep the values the record had, in the
\* store and in the body of the response.
C21_PartialPatch ==
  resp.kind = "updateUser" /\ resp.status = 200 =>
    /\ Patched(StoredUser, resp.before[1], resp.arg)
    /\ StoredUser.password = resp.before[1].password
    /\ Patched(resp.body[1], resp.before[1], resp.arg)

\* C21 in the degraded mode alone.
C21_LocalPartialPatch == resp.mode = "local" => C21_PartialPatch

\* A degraded update that supplied one profile field of a record whose other
\* profile field was set.
C21_LocalWitness ==
  /\ resp.kind = "updateUser" /\ resp.status = 200 /\ resp.mode = "local"
  /\ resp.arg.profile # <<>>
  /\ \E f \in ProfileFields \ DOMAIN resp.arg.profile[1] :
       resp.before[1].profile[f] # ""

\* C22: a delete of a stored marketplace request is answered 200 and removes
\* that one record from the store of its mode, every other request staying
\* as it was and where it was; a delete of an id whose delete was answered
\* 200 before is answered 404 and changes neither store.
C22_DeleteOnce ==
  [][resp'.kind = "delete" =>
       /\ resp'.mode = "local"
             /\ findIndex(localDB.marketplaceRequests, resp'.id) # 0 =>
           /\ resp'.status = 200
           /\ RemovedOne(localDB.marketplaceRequests,
                         localDB'.marketplaceRequests, resp'.id)
           /\ mongo' = mongo
       /\ resp'.mode = "mongo" /\ findIndex(mongo.requests, resp'.id) # 0 =>
           /\ resp'.status = 200
           /\ RemovedOne(mongo.requests, mongo'.requests, resp'.id)
           /\ localDB' = localDB
       /\ resp'.id \in hist.deleted =>
           /\ resp'.status = 404
           /\ localDB' = localDB /\ mongo' = mongo]_vars

\* C22: the second delete of a request has been answered 404 while another
\* request, stored before and after the deleted one, is still in the store.
C22_Witness ==
  /\ resp.kind = "delete" /\ resp.status = 404 /\ resp.id \in hist.deleted
  /\ \E i, j \in DOMAIN StoreRequests(resp.mode) :
       /\ StoreRequests(resp.mode)[i].id < resp.id
       /\ StoreRequests(resp.mode)[j].id > resp.id

\* The calendar day of instant t on the server, and in UTC.
LocalDay(t) == (t + zone) \div TicksPerDay
UtcDay(t) == t \div TicksPerDay

\* The series has one entry for each of the `days` calendar days that end
\* with day `today`, in ascending order.
Consecutive(series, days, today) ==
  /\ Len(series) = days
  /\ \A i \in DOMAIN series : series[i].date = today - days + i

\* C23: for every range the userGrowth and bookings series have one entry
\* for each of the 7 (7d, and any other value), 30 (30d), 90 (90d) or 365
\* (1y) consecutive calendar days that end today, in ascending order; a day
\* without events has its entry, with a count that is not negative.
C23_Buckets ==
  resp.kind = "analytics" =>
    LET body == resp.body[1]
        days == CASE resp.query = "30d" -> 30
                  [] resp.query = "90d" -> 90
                  [] resp.query = "1y" -> 365
                  [] OTHER -> 7
    IN /\ resp.status = 200
       /\ \E today \in {LocalDay(resp.at), UtcDay(resp.at)} :
            /\ Consecutive(body.userGrowth, days, today)
            /\ Consecutive(body.bookings, days, today)
       /\ \A i \in DOMAIN body.bookings : body.bookings[i].bookings >= 0

\* C23 on the servers whose local time is not ahead of UTC.
C23_BucketsWest == zone <= 0 => C23_Buckets

\* A year of buckets has been answered on a server west of Greenwich while
\* no request was stored.
C23_WestWitness ==
  /\ resp.kind = "analytics" /\ resp.query = "1y" /\ zone < 0
  /\ StoreRequests(resp.mode) = <<>>
  /\ Len(resp.body[1].bookings) = 365

\* The user records of the store that served the last response.
StoreUsers == IF resp.mode = "local" THEN localDB.users ELSE mongo.users

\* The stored users that carry a creation date, and those that do not.
Dated == {i \in DOMAIN StoreUsers : "createdAt" \in DOMAIN StoreUsers[i]}
Undated == DOMAIN StoreUsers \ Dated

\* The stored users created in [lo, hi].
UsersCreated(lo, hi) ==
  Cardinality({i \in Dated : /\ StoreUsers[i].createdAt >= lo
                             /\ StoreUsers[i].createdAt <= hi})

\* The baseline of the last response: the stored users created before the
\* start of its window.
Baseline ==
  Cardinality({i \in Dated : StoreUsers[i].createdAt < resp.before[1].start})

\* C24: in every analytics response the userGrowth series never decreases
\* from one bucket to the next, and its first bucket is at least the number
\* of users created before the start of the window.
C24_NonDecreasing ==
  resp.kind = "analytics" =>
    LET growth == resp.body[1].userGrowth IN
      /\ growth[1].users >= Baseline
      /\ \A i \in 2..Len(growth) : growth[i].users >= growth[i - 1].users

\* C24: a response on MongoDB with a user created before the window and
\* another one registered inside it: the series starts at the baseline or
\* above and ends higher than it starts.
C24_Witness ==
  /\ resp.kind = "analytics" /\ resp.mode = "mongo"
  /\ Baseline >= 1
  /\ LET growth == resp.body[1].userGrowth
     IN growth[Len(growth)].users > growth[1].users

\* C25: the last userGrowth bucket is the baseline plus the number of users
\* created within [start, end]: no registration of the window is lost.  (A
\* user record without a creation date may or may not be counted.)
C25_LastBucket ==
  resp.kind = "analytics" =>
    LET growth == resp.body[1].userGrowth
        sel == resp.before[1]
        created == Baseline + UsersCreated(sel.start, sel.end)
    IN /\ growth[Len(growth)].users >= created
       /\ growth[Len(growth)].users <= created + Cardinality(Undated)

\* C25 on the servers whose local time is UTC.
C25_LastBucketUtc == zone = 0 => C25_LastBucket

\* On a server in UTC, a response on MongoDB counts a user created before
\* the window and one registered on its last day.
C25_UtcWitness ==
  /\ resp.kind = "analytics" /\ resp.mode = "mongo" /\ zone = 0
  /\ Baseline = 1
  /\ UsersCreated(resp.before[1].end - 1, resp.before[1].end) = 1
  /\ resp.body[1].userGrowth[7].users = 2

\* The stored requests created on UTC calendar day `day`.
RequestsOfDay(mode, day) ==
  Cardinality({i \in DOMAIN StoreRequests(mode) :
                 UtcDay(StoreRequests(mode)[i].createdAt) = day})

\* C26: the window is aligned to days: every bookings bucket, the first one
\* included, is the number of requests created at any time of its calendar
\* day.
C26_DayAligned ==
  resp.kind = "analytics" =>
    \A i \in DOMAIN resp.body[1].bookings :
      resp.body[1].bookings[i].bookings
        = RequestsOfDay(resp.mode, resp.body[1].bookings[i].date)

\* C26 for the buckets after the first.
C26_LaterBuckets ==
  resp.kind = "analytics" =>
    \A i \in 2..Len(resp.body[1].bookings) :
      resp.body[1].bookings[i].bookings
        = RequestsOfDay(resp.mode, resp.body[1].bookings[i].date)

\* A response whose window holds requests of its first and of its last day.
C26_LaterWitness ==
  /\ resp.kind = "analytics" /\ resp.query = ""
  /\ resp.body[1].bookings[1].bookings >= 1
  /\ resp.body[1].bookings[7].bookings >= 1

\* C27: metrics.totalBookings is the number of requests ever created,
\* whatever the range and whatever was done to the requests afterwards.
C27_TotalBookings ==
  resp.kind = "analytics" =>
    resp.body[1].metrics.totalBookings = Cardinality(hist.submitted)

\* C27 in terms of the store: totalBookings is the number of requests the
\* store of the mode holds, for every range.
C27_StoredBookings ==
  resp.kind = "analytics" =>
    resp.body[1].metrics.totalBookings = Len(StoreRequests(resp.mode))

\* A response with range 30d after one of two requests was deleted.
C27_StoredWitness ==
  /\ resp.kind = "analytics" /\ resp.query = "30d"
  /\ hist.deleted # {} /\ Cardinality(hist.submitted) = 2
  /\ resp.body[1].metrics.totalBookings = 1

\* A payload field that is a finite number or a string with a numeric
\* prefix, and the number it stands for (in tenths).
IsNumeric(value) ==
  \/ value.t = "number" /\ value.finite
  \/ value.t = "string" /\ parseFloat(value.v) # <<>>

NumericValue(value) ==
  IF value.t = "number" THEN value.v ELSE parseFloat(value.v)[1]

\* The amount of a payload by precedence: the value of the first of price,
\* amount, total, cost that is there and numeric, else 0.
FirstNumeric(data) ==
  LET fields == <<"price", "amount", "total", "cost">>
      numeric == {i \in DOMAIN fields :
                    fields[i] \in DOMAIN data /\ IsNumeric(data[fields[i]])}
  IN IF numeric = {} THEN 0
     ELSE NumericValue(data[fields[CHOOSE i \in numeric :
                                     \A j \in numeric : i <= j]])

\* C28: the amount extracted from an item is the value of the first of
\* price, amount, total, cost that is a finite number or a string that
\* parses as a number, fields that are absent or do not parse being passed
\* over, and 0 when there is none: {price:5, amount:10} gives 5,
\* {amount:"7.5"} gives 7.5 and {} gives 0.  It is what an analytics
\* response over one item reports as revenueMTD.
C28_Precedence ==
  /\ \A it \in Range(localDB.marketplaceItems) \cup Range(mongo.items) :
       /\ getItemAmount(it) = FirstNumeric(Payload(it.data))
       /\ it.data = "{price:5,amount:10}" => getItemAmount(it) = 50
       /\ it.data = "{amount:'7.5'}" => getItemAmount(it) = 75
       /\ it.data = "{}" => getItemAmount(it) = 0
  /\ resp.kind = "analytics" /\ Len(resp.before[1].forMonth) = 1 =>
       resp.body[1].metrics.revenueMTD
         = FirstNumeric(Payload(resp.before[1].forMonth[1].data))

\* C28: an analytics response on MongoDB has reported 5 as the revenue of an
\* item whose payload is {price:5, amount:10}.
C28_Witness ==
  /\ resp.kind = "analytics" /\ resp.mode = "mongo"
  /\ Len(resp.before[1].forMonth) = 1
  /\ resp.before[1].forMonth[1].data = "{price:5,amount:10}"
  /\ resp.body[1].metrics.revenueMTD = 50

\* An analytics response has reported 12 as the revenue of an item whose
\* price is null, whose amount is not finite and whose cost is " 12kg".
C28_SkipWitness ==
  /\ resp.kind = "analytics"
  /\ Len(resp.before[1].forMonth) = 1
  /\ resp.before[1].forMonth[1].data
       = "{price:null,amount:1e999,cost:' 12kg'}"
  /\ resp.body[1].metrics.revenueMTD = 120

\* Item `it` of the store of `mode` is dated within [lo, hi]: by its approval
\* date (its creation date when it has none) in localDB; by either of the
\* two dates in MongoDB.
DatedWithin(mode, it, lo, hi) ==
  LET in(d) == d # NullDate /\ d >= lo /\ d <= hi IN
    IF mode = "local"
    THEN in(IF it.approvedAt # NullDate THEN it.approvedAt ELSE it.createdAt)
    ELSE in(it.approvedAt) \/ in(it.createdAt)

RECURSIVE AmountSum(_)
\* The sum of the amounts of a list of items.
AmountSum(items) ==
  IF items = <<>> THEN 0
  ELSE FirstNumeric(Payload(Head(items).data)) + AmountSum(Tail(items))

\* The stored items of the mode of the last response dated within [lo, hi].
ItemsWithin(lo, hi) ==
  SelectSeq(StoreItems(resp.mode),
            LAMBDA it : DatedWithin(resp.mode, it, lo, hi))

\* The instant the month of instant t began on the server.
MonthStart(t) ==
  (LocalDay(t) - (LocalDay(t) % DaysPerMonth)) * TicksPerDay - zone

Projected(items) ==
  [i \in DOMAIN items |->
     [type |-> items[i].type, data |-> items[i].data,
      approvedAt |-> items[i].approvedAt, createdAt |-> items[i].createdAt]]

\* What the branches of the other mode read from the records of the store
\* that served the last response, for the same window.
OtherSelection ==
  LET sel == resp.before[1] IN
    IF resp.mode = "local"
    THEN mongoSelectionOf(localDB.users, localDB.marketplaceRequests,
                          localDB.marketplaceItems, sel.start, sel.end)
    ELSE localSelectionOf(mongo.users, mongo.requests, mongo.items,
                          sel.start, sel.end, sel.end)

\* The two selections take the same items for the revenue.
SameItems(sel, other) ==
  /\ Projected(sel.forRange) = Projected(other.forRange)
  /\ Projected(sel.forMonth) = Projected(other.forMonth)

\* C30: the analytics do not depend on the backend: the branches of the
\* other mode, given the records of the store that served a response and
\* the same range, select the same items and compute the same userGrowth,
\* bookings, revenueBreakdown and revenueMTD.
C30_BackendIndependent ==
  resp.kind = "analytics" =>
    LET body == resp.body[1]
        other == analyticsBody(resp.arg, OtherSelection)
    IN /\ SameItems(resp.before[1], OtherSelection)
       /\ body.userGrowth = other.userGrowth
       /\ body.bookings = other.bookings
       /\ body.revenueBreakdown = other.revenueBreakdown
       /\ body.metrics.revenueMTD = other.metrics.revenueMTD

\* C30 for the items and the revenue alone.
C30_SameRevenue ==
  resp.kind = "analytics" =>
    /\ SameItems(resp.before[1], OtherSelection)
    /\ resp.body[1].metrics.revenueMTD
         = analyticsBody(resp.arg, OtherSelection).metrics.revenueMTD

\* C30 for the bookings alone.
C30_SameBookings ==
  resp.kind = "analytics" =>
    resp.body[1].bookings = analyticsBody(resp.arg, OtherSelection).bookings

\* A response with a request in its window.
C30_BookingsWitness ==
  /\ resp.kind = "analytics"
  /\ \E i \in DOMAIN resp.body[1].bookings :
       resp.body[1].bookings[i].bookings >= 1

\* The applications stored with the given status.
ApplicationsWith(status) ==
  {a \in Range(mongo.applications) : a.status = status}

\* C31: the public companion listing holds exactly the applications whose
\* status is approved at the time of the listing, each once: pending and
\* rejected applications, and applications moved away from approved, are
\* not in it.
C31_ApprovedOnly ==
  (resp.kind = "listCompanions" /\ resp.status = 200) =>
    /\ {resp.body[i].id : i \in DOMAIN resp.body} =
         {a.id : a \in ApplicationsWith("approved")}
    /\ Len(resp.body) = Cardinality(ApplicationsWith("approved"))

\* A listing that shows an approved application and leaves out one that was
\* rejected after it was created.
C31_Witness ==
  /\ resp.kind = "listCompanions" /\ resp.status = 200
  /\ resp.body # <<>>
  /\ \E a \in ApplicationsWith("rejected") : a.updatedAt > a.createdAt

\* A status field and the two fields stamped with it are set together.
StampedWhen(doc, status, at, by) ==
  /\ doc.status = status <=> at # NullDate
  /\ doc.status = status <=> by # NullBy

\* C32: in both stores every request has status pending or approved, every
\* item has status active or completed, a request has approvedAt and
\* approvedBy exactly when it is approved, and an item has completedAt and
\* completedBy exactly when it is completed.
C32_StatusFields ==
  \A mode \in {"local", "mongo"} :
    /\ \A r \in Range(StoreRequests(mode)) :
         /\ r.status \in {"pending", "approved"}
         /\ StampedWhen(r, "approved", r.approvedAt, r.approvedBy)
    /\ \A it \in Range(StoreItems(mode)) :
         /\ it.status \in {"active", "completed"}
         /\ StampedWhen(it, "completed", it.completedAt, it.completedBy)

\* A store with a pending request, an approved request and a completed item.
C32_Witness ==
  \E mode \in {"local", "mongo"} :
    /\ \E r \in Range(StoreRequests(mode)) : r.status = "pending"
    /\ \E r \in Range(StoreRequests(mode)) : r.status = "approved"
    /\ \E it \in Range(StoreItems(mode)) : it.status = "completed"

\* C33: every stored companion application has status pending, approved or
\* rejected.
C33_StatusEnum ==
  \A a \in Range(mongo.applications) :
    a.status \in {"pending", "approved", "rejected"}

\* The part of C33 about creation: the application a POST has just stored
\* is pending, whatever status its body carried.
C33_CreatedPending ==
  (resp.kind = "createCompanion" /\ resp.made # 0) =>
    \E a \in ApplicationsWith("pending") : a.id = resp.made

\* The open sockets whose latest register event carried role user.
UsersOnline ==
  Cardinality({s \in sockets : /\ hist.registered[s] # <<>>
                               /\ hist.registered[s][1].role = "user"})

\* The step of a call of the analytics route that reads the registry: the
\* whole degraded route, or the continuation of the itemsForMonth query.
ReadsRegistry(c) ==
  calls[c].pc = "itemsForMonth" /\ calls'[c].pc = "totalUsers"

\* C34: metrics.activeSessions is the number of open sockets registered with
\* role user when the route reads the registry: a socket counts only once it
\* has registered, once however often it registers, and no longer after it
\* disconnects; the response carries the number that was read.
C34_ActiveSessions ==
  [][/\ \A c \in Slots :
          ReadsRegistry(c) => calls'[c].doc[1].sessions = UsersOnline'
     /\ (resp'.kind = "analytics" /\ resp'.status = 200) =>
          /\ resp'.body[1].metrics.activeSessions = resp'.before[1].sessions
          /\ resp'.mode = "local" =>
               resp'.body[1].metrics.activeSessions = UsersOnline'
          /\ resp'.mode = "mongo" =>
               \E c \in Slots : /\ calls[c].pc = "totalUsers"
                                 /\ calls'[c].pc = "idle"
                                 /\ resp'.before[1].sessions =
                                      calls[c].doc[1].sessions]_vars

\* A response that counts one session while two sockets are open, the other
\* one registered with another role.
C34_Witness ==
  /\ resp.kind = "analytics" /\ resp.status = 200
  /\ resp.body[1].metrics.activeSessions = 1
  /\ Cardinality(sockets) = 2
  /\ \A s \in sockets : hist.registered[s] # <<>>

\* In connected mode the registry is read before the last await of the
\* route, so the number in the response is the one of that moment and not
\* of the moment the response is sent.
C34_AtResponse ==
  (resp.kind = "analytics" /\ resp.status = 200) =>
    resp.body[1].metrics.activeSessions = UsersOnline

\* C35: submit accepts the same inputs in both modes: every request the
\* degraded branch has stored passes the validation of the connected branch,
\* and every request the connected branch has stored passes the test of the
\* degraded branch.
C35_SameValidation ==
  /\ \A r \in Range(localDB.marketplaceRequests) : RequestValid(r)
  /\ \A r \in Range(mongo.requests) : r.type # "" /\ r.data # ""

\* C36: when no call is in progress, every request of MongoDB that is
\* approved has an item that references it, whatever the outcome of the
\* approve calls was.
C36_ApprovedHasItem ==
  Busy = {} =>
    \A r \in Range(mongo.requests) :
      r.status = "approved" => ExistingItem(mongo.items, r.id)

\* The same for the approve calls that were answered with 200.
C36_AnsweredHasItem ==
  (resp.kind = "approve" /\ resp.mode = "mongo" /\ resp.status = 200) =>
    ExistingItem(mongo.items, resp.id)

\* The requests of a store that an item of the store was derived from.
SourcesOf(mode, it) ==
  {r \in Range(StoreRequests(mode)) : r.id = it.requestId}

\* C37: in both stores, the source request of an item, if it is still
\* stored, is approved: no item exists for a pending request.
C37_SourceApproved ==
  \A mode \in {"local", "mongo"} :
    \A it \in Range(StoreItems(mode)) :
      \A r \in SourcesOf(mode, it) : r.status = "approved"

\* A store with an item whose request is stored, next to a request that is
\* pending.
C37_Witness ==
  \E mode \in {"local", "mongo"} :
    /\ \E it \in Range(StoreItems(mode)) : SourcesOf(mode, it) # {}
    /\ \E r \in Range(StoreRequests(mode)) : r.status = "pending"

\* The request with the given id in a store, as a set.
RequestsWithId(requests, id) == {r \in Range(requests) : r.id = id}

\* C38: an approve of a request that was approved already stamps the request
\* with the time and the approver of the new call, and no step of the calls
\* changes or removes an item that exists: the item keeps the stamps of the
\* approve that created it.
C38_Reapprove ==
  [][/\ (/\ resp'.kind = "approve" /\ resp'.status = 200
          /\ resp'.before # <<>> /\ resp'.before[1].status = "approved") =>
          LET mode == resp'.mode
              requests == IF mode = "local" THEN localDB'.marketplaceRequests
                          ELSE mongo'.requests IN
            \A r \in RequestsWithId(requests, resp'.id) :
              /\ r.status = "approved"
              /\ r.approvedAt = resp'.at
              /\ r.approvedBy = resp'.arg
     /\ SubSeq(localDB'.marketplaceItems,
               Len(localDB'.marketplaceItems) - Len(localDB.marketplaceItems) + 1,
               Len(localDB'.marketplaceItems)) = localDB.marketplaceItems
     /\ SubSeq(mongo'.items, 1, Len(mongo.items)) = mongo.items]_vars

\* After a second approve, later and by another administrator, the request
\* carries the new stamps and its item the old ones.
C38_Witness ==
  /\ resp.kind = "approve" /\ resp.status = 200
  /\ resp.before # <<>> /\ resp.before[1].status = "approved"
  /\ \E r \in RequestsWithId(StoreRequests(resp.mode), resp.id) :
       \E it \in Range(StoreItems(resp.mode)) :
         /\ it.requestId = r.id
         /\ it.approvedBy # r.approvedBy
         /\ it.approvedAt < r.approvedAt
         /\ r.approvedBy = resp.arg /\ r.approvedAt = resp.at

RECURSIVE SumBookings(_, _)
\* The sum of the bookings values of the series from index i on.
SumBookings(series, i) ==
  IF i > Len(series) THEN 0
  ELSE series[i].bookings + SumBookings(series, i + 1)

\* C39: in every analytics response the bookings of the days add up to at
\* most metrics.totalBookings, and the last value of userGrowth is at most
\* metrics.totalUsers.
C39_WithinTotals ==
  (resp.kind = "analytics" /\ resp.status = 200) =>
    LET body == resp.body[1] IN
      /\ SumBookings(body.bookings, 1) <= body.metrics.totalBookings
      /\ body.userGrowth[Len(body.userGrowth)].users <= body.metrics.totalUsers

\* The half of C39 about the users.
C39_GrowthWithinTotal ==
  (resp.kind = "analytics" /\ resp.status = 200) =>
    LET body == resp.body[1] IN
      body.userGrowth[Len(body.userGrowth)].users <= body.metrics.totalUsers

\* C39 for the degraded route, which reads everything in one turn.
C39_LocalWithinTotals ==
  (resp.kind = "analytics" /\ resp.mode = "local") => C39_WithinTotals

=========================================================================
